---- MODULE Spec2Model ----
(***************************************************************************)
(* Read holds and read policies of the coordinator                         *)
(* (src/adapter/src/coord/read_policy.rs).                                 *)
(*                                                                         *)
(* The coordinator keeps one ReadCapability per collection (a base policy  *)
(* and a counted set of hold times), one TimelineReadHolds per timeline,   *)
(* and hands out short-lived ReadHolds whose destructor sends their inner  *)
(* state to a channel the coordinator drains.  The storage and compute     *)
(* controllers are the environment: they own each collection's lower       *)
(* frontier and receive the policies the coordinator computes.             *)
(***************************************************************************)
EXTENDS Integers, Sequences, FiniteSets, TLC

\* Timestamps are 0..MaxTime (mz_repr::Timestamp is totally ordered).
MaxTime == 1
\* At most MaxHolds ReadHolds values are alive or waiting in the drop channel.
MaxHolds == 2
\* initialize_read_policies is not called for a collection counted MaxCount times.
MaxCount == 3

VARIABLES
    collections,                \* controller: id -> lower frontier, of the collections that exist
    instances,                  \* controller: the compute instances that exist
    read_policies,              \* controller: id -> the policy last set for it
    timeline_context,           \* catalog: id -> its TimelineContext, once asked for
    oracle_ts,                  \* the timeline oracle's read_ts
    storage_read_capabilities,  \* coordinator: storage id -> ReadCapability
    compute_read_capabilities,  \* coordinator: compute id -> ReadCapability
    timeline_read_holds,        \* TimelineState.read_holds.holds
    live_read_holds,            \* the ReadHolds values owned by callers
    txn_read_holds,             \* coordinator: connection id -> the ReadHolds kept for its transaction
    dropped_read_holds,         \* the drop channel (tx -> rx), oldest first
    dropped_read_holds_rx,      \* whether the receiving end of the drop channel exists
    watched,                    \* position in the drop channel of the hold an observer follows, or 0
    applied,                    \* ledger: id -> time -> sum of the deltas applied
    last,                       \* the operation that ran last, and what it returned
    recording,                  \* whether `last` is kept (it is history, not program state)
    scope,                      \* the collections the callers of this run name
    aborted                     \* the coordinator stopped: it panicked, terminated or shut down

vars == <<collections, instances, read_policies, timeline_context, oracle_ts, storage_read_capabilities, compute_read_capabilities, timeline_read_holds, live_read_holds, txn_read_holds, dropped_read_holds, dropped_read_holds_rx, watched, applied, last, recording, scope, aborted>>

Times == 0..MaxTime

StorageIds == {"s1"}

ComputeIds == {"c1"}

Instances == {"i1"}

\* The connections of the sessions.
ConnIds == {"u1", "u2"}

Ids == StorageIds \cup ComputeIds

\* The compute instance a compute collection lives on.
InstanceOf(id) == "i1"

-----------------------------------------------------------------------------
(* Antichain<Timestamp>: a set of mutually incomparable times.             *)

Max(x, y) == IF x >= y THEN x ELSE y

Minimal(S) == {x \in S : \A y \in S : ~(y < x)}

\* Antichain::from_elem
FromElem(t) == {t}

Frontiers == {{}} \cup {FromElem(t) : t \in Times}

\* Lattice::join on antichains: the least frontier beyond both.
Join(a, b) == Minimal({Max(x, y) : x \in a, y \in b})

\* Lattice::meet on antichains: the greatest frontier before both.
Meet(a, b) == Minimal(a \cup b)

\* PartialOrder::less_equal on antichains.
Le(a, b) == \A y \in b : \E x \in a : x <= y

-----------------------------------------------------------------------------
(* Partial maps (HashMap / BTreeMap).                                      *)

EmptyMap == [k \in {} |-> {}]

Put(f, k, v) == [x \in (DOMAIN f) \cup {k} |-> IF x = k THEN v ELSE f[x]]

Remove(f, k) == [x \in (DOMAIN f) \ {k} |-> f[x]]

RECURSIVE SetToSeq(_)
\* The elements of a finite set in a fixed order.
SetToSeq(S) == IF S = {} THEN << >> ELSE LET x == CHOOSE y \in S : TRUE IN <<x>> \o SetToSeq(S \ {x})

\* Every order in which a HashMap with the key set S may be iterated.
Orders(S) == {o \in [1..Cardinality(S) -> S] : \A i, j \in 1..Cardinality(S) : o[i] = o[j] => i = j}

-----------------------------------------------------------------------------
(* CollectionIdBundle.                                                     *)

EmptyBundle == [storage_ids |-> {}, compute_ids |-> EmptyMap]

\* The bundle of the storage ids S and the compute ids C, each under its instance.
MkBundle(S, C) == [storage_ids |-> S, compute_ids |-> [i \in {InstanceOf(c) : c \in C} |-> {c \in C : InstanceOf(c) = i}]]

AllBundles == {MkBundle(S, C) : S \in SUBSET StorageIds, C \in SUBSET ComputeIds}

BundleComputeIds(b) == UNION {b.compute_ids[i] : i \in DOMAIN b.compute_ids}

BundleIds(b) == b.storage_ids \cup BundleComputeIds(b)

\* CollectionIdBundle::is_empty
BundleIsEmpty(b) == b.storage_ids = {} /\ \A i \in DOMAIN b.compute_ids : b.compute_ids[i] = {}

\* CollectionIdBundle::extend
BundleExtend(a, b) == [storage_ids |-> a.storage_ids \cup b.storage_ids, compute_ids |-> [i \in (DOMAIN a.compute_ids) \cup (DOMAIN b.compute_ids) |-> (IF i \in DOMAIN a.compute_ids THEN a.compute_ids[i] ELSE {}) \cup (IF i \in DOMAIN b.compute_ids THEN b.compute_ids[i] ELSE {})]]

\* CollectionIdBundle::intersection
BundleIntersection(a, b) == [storage_ids |-> a.storage_ids \cap b.storage_ids, compute_ids |-> [i \in {j \in (DOMAIN a.compute_ids) \cap (DOMAIN b.compute_ids) : a.compute_ids[j] \cap b.compute_ids[j] # {}} |-> a.compute_ids[i] \cap b.compute_ids[i]]]

\* holds.entry(time).or_default().storage_ids.insert(id)
InsertStorageId(holds, time, id) == LET b == IF time \in DOMAIN holds THEN holds[time] ELSE EmptyBundle IN Put(holds, time, [b EXCEPT !.storage_ids = @ \cup {id}])

\* holds.entry(time).or_default().compute_ids.entry(instance).or_default().insert(id)
InsertComputeId(holds, time, instance, id) == LET b == IF time \in DOMAIN holds THEN holds[time] ELSE EmptyBundle IN Put(holds, time, [b EXCEPT !.compute_ids = Put(@, instance, (IF instance \in DOMAIN @ THEN @[instance] ELSE {}) \cup {id})])

\* TimelineReadHolds::id_bundle / ReadHoldsInner::id_bundle
IdBundle(holds) == [storage_ids |-> UNION {holds[f].storage_ids : f \in DOMAIN holds}, compute_ids |-> [i \in UNION {DOMAIN holds[f].compute_ids : f \in DOMAIN holds} |-> UNION {holds[f].compute_ids[i] : f \in {g \in DOMAIN holds : i \in DOMAIN holds[g].compute_ids}}]]

\* ReadHoldsInner::storage_ids: the (time, id) pairs of the storage ids.
HoldsStorageIds(holds) == {p \in (DOMAIN holds) \X StorageIds : p[2] \in holds[p[1]].storage_ids}

\* ReadHoldsInner::compute_ids: per instance, the (time, id) pairs of its ids.
HoldsComputeIds(holds) == [i \in UNION {DOMAIN holds[f].compute_ids : f \in DOMAIN holds} |-> {p \in (DOMAIN holds) \X ComputeIds : i \in DOMAIN holds[p[1]].compute_ids /\ p[2] \in holds[p[1]].compute_ids[i]}]

-----------------------------------------------------------------------------
(* ReadPolicy and ReadCapability (mz_storage_types::read_policy,            *)
(* mz_adapter_types::compaction).                                          *)

\* ReadPolicy::ValidFrom(frontier)
ValidFrom(f) == [kind |-> "ValidFrom", frontier |-> f]

\* ReadPolicy::lag_writes_by(lag): stay `lag` behind the write frontier.
LagWritesBy(k) == [kind |-> "LagWriteFrontier", lag |-> k]

\* The lag of the compaction windows that are a duration.
WindowLag == 1

CompactionWindows == {"DisableCompaction", "Duration"}

\* impl From<CompactionWindow> for ReadPolicy
WindowPolicy(w) == IF w = "DisableCompaction" THEN ValidFrom(FromElem(0)) ELSE LagWritesBy(WindowLag)

\* The base policies update_*_base_read_policies is called with: those of a window.
BasePolicies == {WindowPolicy(w) : w \in CompactionWindows}

\* The write frontiers a collection may have.
Uppers == {{}} \cup {{u} : u \in 0..(MaxTime + WindowLag)}

\* ReadPolicy::frontier(write_frontier) of a base policy.
BaseFrontier(p, upper) == IF p.kind = "ValidFrom" THEN p.frontier ELSE {Max(0, u - p.lag) : u \in upper}

\* MutableAntichain::new: no time is counted.
ZeroHolds == [t \in Times |-> 0]

\* MutableAntichain::update_iter(time.iter().map(|t| (*t, delta)))
UpdateIter(holds, time, delta) == [t \in Times |-> IF t \in time THEN holds[t] + delta ELSE holds[t]]

\* MutableAntichain::frontier: the least frontier beyond every time counted positive.
HoldsFrontier(holds) == Minimal({t \in Times : holds[t] > 0})

\* ReadCapability::from(policy)
NewCapability(policy) == [base_policy |-> policy, holds |-> ZeroHolds]

\* ReadCapability::policy: Multiple[ValidFrom(holds.frontier()), base_policy]
Policy(cap) == [valid_from |-> HoldsFrontier(cap.holds), base |-> cap.base_policy]

\* ReadPolicy::frontier(write_frontier) of a policy() value: the meet of its parts.
PolicyFrontier(p, upper) == Meet(p.valid_from, BaseFrontier(p.base, upper))

-----------------------------------------------------------------------------
(* The controllers.                                                        *)

\* controller.storage.collection(id) / compute.collection(instance, id) is Ok
CollectionExists(id) == id \in DOMAIN collections /\ (id \in ComputeIds => InstanceOf(id) \in instances)

RECURSIVE SetReadPolicy(_, _)
\* set_read_policy(policies): the controller installs each policy, in order.
SetReadPolicy(rp, policies) == IF policies = << >> THEN rp ELSE LET id == Head(policies)[1] IN SetReadPolicy(IF CollectionExists(id) THEN Put(rp, id, Head(policies)[2]) ELSE rp, Tail(policies))

\* One set_read_policy call: the controller or instance called, and its argument.
Call(target, policies) == [target |-> target, policies |-> policies]

\* compute.set_read_policy(instance, ..) is Err when the instance does not exist;
\* storage.set_read_policy returns nothing.
CallFails(call) == call.target # "storage" /\ call.target \notin instances

RECURSIVE SetReadPolicies(_, _, _)
\* The set_read_policy calls of one operation, in order; a failing call ends the
\* process (unwrap_or_terminate) before the calls after it are made.
SetReadPolicies(rp, calls, made) == IF calls = << >> THEN [read_policies |-> rp, made |-> made, terminated |-> FALSE] ELSE IF CallFails(Head(calls)) THEN [read_policies |-> rp, made |-> made, terminated |-> TRUE] ELSE SetReadPolicies(SetReadPolicy(rp, Head(calls).policies), Tail(calls), Append(made, Head(calls)))

-----------------------------------------------------------------------------
(* Coordinator::ensure_storage_capability, ensure_compute_capability.      *)

NoWindow == "None"

\* An ensure that, given no compaction window, sets an existing capability's base policy to the current since.
EnsureCapability_Reset(caps, id, compaction_window) == IF id \in DOMAIN caps THEN (IF compaction_window # NoWindow THEN [caps EXCEPT ![id].base_policy = WindowPolicy(compaction_window)] ELSE [caps EXCEPT ![id].base_policy = ValidFrom(collections[id])]) ELSE Put(caps, id, NewCapability(IF compaction_window # NoWindow THEN WindowPolicy(compaction_window) ELSE ValidFrom(collections[id])))

\* An ensure that, given a compaction window, replaces an existing capability by a new one: its holds are forgotten.
EnsureCapability_Fresh(caps, id, compaction_window) == IF id \in DOMAIN caps /\ compaction_window = NoWindow THEN caps ELSE Put(caps, id, NewCapability(IF compaction_window # NoWindow THEN WindowPolicy(compaction_window) ELSE ValidFrom(collections[id])))

\* entry(id).and_modify(base_policy = window, if given).or_insert_with(window, else ValidFrom(the collection's since))
EnsureCapability(caps, id, compaction_window) == IF id \in DOMAIN caps THEN (IF compaction_window # NoWindow THEN [caps EXCEPT ![id].base_policy = WindowPolicy(compaction_window)] ELSE caps) ELSE Put(caps, id, NewCapability(IF compaction_window # NoWindow THEN WindowPolicy(compaction_window) ELSE ValidFrom(collections[id])))

EnsureStorageCapability(caps, id, compaction_window) == EnsureCapability(caps, id, compaction_window)

EnsureComputeCapability(caps, instance_id, id, compaction_window) == EnsureCapability(caps, id, compaction_window)

-----------------------------------------------------------------------------
(* State after construction.                                               *)

\* TimelineContext: anchored to the timeline, or not (TimestampIndependent and
\* TimestampDependent take the same branch).
TimelineContexts == {"TimelineDependent", "TimestampIndependent"}

\* The lower frontiers a collection may have when the coordinator first sees it.
InitialLowers == {FromElem(0), FromElem(1)}

\* `last` before any operation ran: the operation, its arguments (time, id_bundle,
\* precise, id, read_holdses), how it ended (result: Ok, Err or panic), what it
\* returned (holds, too_late) and the set_read_policy calls it made, in order.
\* An acquire also leaves the capability tables it found (before); the drop of
\* the ReadHolds it returned and the release of that hold alone hand them on when
\* nothing else ran in between (round_trip).
NoOp == [op |-> "none", time |-> 0, id_bundle |-> EmptyBundle, precise |-> FALSE, id |-> "", window |-> "None", policy |-> ValidFrom({}), existed |-> FALSE, panic |-> "", read_holdses |-> << >>, result |-> "Ok", holds |-> EmptyMap, too_late |-> {}, calls |-> << >>, before |-> [storage_read_capabilities |-> EmptyMap, compute_read_capabilities |-> EmptyMap], round_trip |-> FALSE, res |-> "Ok", followed |-> FALSE, conn_id |-> ""]

\* An operation leaves its record in `last`, when history is kept.
Return(ran) == last' = IF recording THEN ran ELSE NoOp

ZeroApplied == [id \in Ids |-> ZeroHolds]

\* The state after construction, for callers that name the collections of one of
\* `scopes`, with or without history.
InitWith(scopes, history) ==
    /\ scope \in scopes
    /\ recording = history
    /\ collections \in {f \in [Ids -> InitialLowers] : \A id \in Ids \ scope : f[id] = FromElem(0)}
    /\ instances = Instances
    /\ read_policies = EmptyMap
    /\ timeline_context = EmptyMap
    /\ oracle_ts = 0
    /\ storage_read_capabilities = EmptyMap
    /\ compute_read_capabilities = EmptyMap
    /\ timeline_read_holds = EmptyMap
    /\ live_read_holds = << >>
    /\ txn_read_holds = EmptyMap
    /\ dropped_read_holds = << >>
    /\ applied = ZeroApplied
    /\ last = NoOp
    /\ aborted = FALSE
    /\ dropped_read_holds_rx = TRUE
    /\ watched = 0

EachCollection == {{id} : id \in Ids}

Init == InitWith(EachCollection, FALSE)

\* The bundles callers pass: not empty, and within the scope of the run.
Bundles == {b \in AllBundles : b # EmptyBundle /\ BundleIds(b) \subseteq scope}

\* The number of ReadHolds kept for transactions.
TxnHolds == Cardinality({p \in (DOMAIN txn_read_holds) \X (1..MaxHolds) : p[2] <= Len(txn_read_holds[p[1]])})

\* The ReadCapability of an id, in whichever table holds it.
CapabilityOf(id) == IF id \in StorageIds THEN storage_read_capabilities[id] ELSE compute_read_capabilities[id]

HasCapability(id) == IF id \in StorageIds THEN id \in DOMAIN storage_read_capabilities ELSE id \in DOMAIN compute_read_capabilities

-----------------------------------------------------------------------------
(* Coordinator::acquire_read_holds.                                        *)

\* The (instance, id) pairs of a bundle's compute ids.
BundleComputePairs(b) == {p \in (DOMAIN b.compute_ids) \X ComputeIds : p[2] \in b.compute_ids[p[1]]}

RECURSIVE HoldStorageIds(_, _, _)
\* Storage ids held at the requested time, whatever the collection retains.
HoldStorageIds_Unclamped(holds, time, ids) == IF ids = << >> THEN holds ELSE HoldStorageIds(InsertStorageId(holds, FromElem(time), Head(ids)), time, Tail(ids))

\* for id in id_bundle.storage_ids: insert id under time.join(implied_capability)
HoldStorageIds(holds, time, ids) == IF ids = << >> THEN holds ELSE HoldStorageIds(InsertStorageId(holds, Join(FromElem(time), collections[Head(ids)]), Head(ids)), time, Tail(ids))

RECURSIVE HoldComputeIds(_, _, _)
\* Compute ids held at the requested time, whatever the collection retains.
HoldComputeIds_AtTime(holds, time, pairs) == IF pairs = << >> THEN holds ELSE HoldComputeIds(InsertComputeId(holds, FromElem(time), Head(pairs)[1], Head(pairs)[2]), time, Tail(pairs))

\* for (instance, ids) in id_bundle.compute_ids: insert id under time.join(read_capability)
HoldComputeIds(holds, time, pairs) == IF pairs = << >> THEN holds ELSE HoldComputeIds(InsertComputeId(holds, Join(FromElem(time), collections[Head(pairs)[2]]), Head(pairs)[1], Head(pairs)[2]), time, Tail(pairs))

\* Holds built at the requested time, whatever the collections retain.
NewReadHolds_AtTime(time, id_bundle) == Put(EmptyMap, FromElem(time), id_bundle)

\* The ReadHoldsInner acquire_read_holds builds before it applies anything.
NewReadHolds(time, id_bundle) == HoldComputeIds(HoldStorageIds(EmptyMap, time, SetToSeq(id_bundle.storage_ids)), time, SetToSeq(BundleComputePairs(id_bundle)))

\* The entries a precise acquire cannot honour: antichain.iter().all(|t| t == time) fails.
TooLate(holds, time) == {<<f, holds[f]>> : f \in {g \in DOMAIN holds : ~(\A hold_time \in g : hold_time = time)}}

RECURSIVE AcquireStorage(_, _, _)
\* The hold of a storage id counted without noting its policy.
AcquireStorage_Unpushed(caps, pairs, policy_changes) == IF pairs = << >> THEN [caps |-> caps, policy_changes |-> policy_changes] ELSE LET time == Head(pairs)[1]  id == Head(pairs)[2]  ensured == EnsureStorageCapability(caps, id, NoWindow)  counted == [ensured EXCEPT ![id].holds = UpdateIter(@, time, 1)] IN AcquireStorage(counted, Tail(pairs), policy_changes)

\* for (time, id) in read_holds.storage_ids(): ensure the capability, +1, note policy()
AcquireStorage(caps, pairs, policy_changes) == IF pairs = << >> THEN [caps |-> caps, policy_changes |-> policy_changes] ELSE LET time == Head(pairs)[1]  id == Head(pairs)[2]  ensured == EnsureStorageCapability(caps, id, NoWindow)  counted == [ensured EXCEPT ![id].holds = UpdateIter(@, time, 1)] IN AcquireStorage(counted, Tail(pairs), Append(policy_changes, <<id, Policy(counted[id])>>))

RECURSIVE AcquireCompute(_, _, _, _)
\* The policy of a compute id noted before the +1 of the acquire.
AcquireCompute_PolicyFirst(caps, compute_instance, pairs, policy_changes) == IF pairs = << >> THEN [caps |-> caps, policy_changes |-> policy_changes] ELSE LET time == Head(pairs)[1]  id == Head(pairs)[2]  ensured == EnsureComputeCapability(caps, compute_instance, id, NoWindow)  counted == [ensured EXCEPT ![id].holds = UpdateIter(@, time, 1)] IN AcquireCompute(counted, compute_instance, Tail(pairs), Append(policy_changes, <<id, Policy(ensured[id])>>))

\* for (time, id) in compute_ids: ensure the capability, +1, note policy()
AcquireCompute(caps, compute_instance, pairs, policy_changes) == IF pairs = << >> THEN [caps |-> caps, policy_changes |-> policy_changes] ELSE LET time == Head(pairs)[1]  id == Head(pairs)[2]  ensured == EnsureComputeCapability(caps, compute_instance, id, NoWindow)  counted == [ensured EXCEPT ![id].holds = UpdateIter(@, time, 1)] IN AcquireCompute(counted, compute_instance, Tail(pairs), Append(policy_changes, <<id, Policy(counted[id])>>))

RECURSIVE AcquireInstances(_, _, _, _)
\* for (compute_instance, compute_ids) in read_holds.compute_ids(): one call each
AcquireInstances(caps, holds, compute_instances, calls) == IF compute_instances = << >> THEN [caps |-> caps, calls |-> calls] ELSE LET r == AcquireCompute(caps, Head(compute_instances), SetToSeq(HoldsComputeIds(holds)[Head(compute_instances)]), << >>) IN AcquireInstances(r.caps, holds, Tail(compute_instances), Append(calls, Call(Head(compute_instances), r.policy_changes)))

\* The ledger after an acquire: +1 for every id of the bundle at its effective time.
AppliedAcquire(time, id_bundle) == [id \in Ids |-> [t \in Times |-> applied[id][t] + (IF id \in BundleIds(id_bundle) /\ t \in Join(FromElem(time), collections[id]) THEN 1 ELSE 0)]]

AcquireArgs(time, id_bundle, precise) == [NoOp EXCEPT !.op = "acquire_read_holds", !.time = time, !.id_bundle = id_bundle, !.precise = precise]

\* The lookup of a collection made only when its capability is adjusted: the
\* storage ids that exist are counted before the call aborts.
AcquireReadHolds_LateLookup(time, id_bundle, precise) ==
    /\ ~aborted
    /\ IF \E id \in BundleIds(id_bundle) : ~CollectionExists(id)
       THEN \* .expect("collection does not exist")
            /\ aborted' = TRUE
            /\ Return([AcquireArgs(time, id_bundle, precise) EXCEPT !.result = "panic"])
            /\ storage_read_capabilities' = [id \in DOMAIN storage_read_capabilities \cup {x \in id_bundle.storage_ids : CollectionExists(x)} |-> IF id \in id_bundle.storage_ids /\ CollectionExists(id) THEN [EnsureStorageCapability(storage_read_capabilities, id, NoWindow)[id] EXCEPT !.holds = UpdateIter(@, Join(FromElem(time), collections[id]), 1)] ELSE storage_read_capabilities[id]]
            /\ UNCHANGED <<recording, scope, txn_read_holds, dropped_read_holds_rx, watched, collections, instances, read_policies, timeline_context, oracle_ts, compute_read_capabilities, timeline_read_holds, live_read_holds, dropped_read_holds, applied>>
       ELSE LET read_holds == NewReadHolds(time, id_bundle)
                too_late == TooLate(read_holds, time)
                s == AcquireStorage(storage_read_capabilities, SetToSeq(HoldsStorageIds(read_holds)), << >>)
                c == AcquireInstances(compute_read_capabilities, read_holds, SetToSeq(DOMAIN HoldsComputeIds(read_holds)), << >>)
                calls == <<Call("storage", s.policy_changes)>> \o c.calls
                set == SetReadPolicies(read_policies, calls, << >>)
            IN  IF precise /\ too_late # {}
                THEN /\ Return([AcquireArgs(time, id_bundle, precise) EXCEPT !.result = "Err", !.too_late = too_late])
                     /\ UNCHANGED <<recording, scope, txn_read_holds, dropped_read_holds_rx, watched, collections, instances, read_policies, timeline_context, oracle_ts, storage_read_capabilities, compute_read_capabilities, timeline_read_holds, live_read_holds, dropped_read_holds, applied, aborted>>
                ELSE /\ Len(live_read_holds) + Len(dropped_read_holds) + TxnHolds < MaxHolds
                     /\ storage_read_capabilities' = s.caps
                     /\ compute_read_capabilities' = c.caps
                     /\ read_policies' = set.read_policies
                     /\ live_read_holds' = Append(live_read_holds, read_holds)
                     /\ applied' = AppliedAcquire(time, id_bundle)
                     /\ Return([AcquireArgs(time, id_bundle, precise) EXCEPT !.holds = read_holds, !.calls = calls, !.before = [storage_read_capabilities |-> storage_read_capabilities, compute_read_capabilities |-> compute_read_capabilities]])
                     /\ UNCHANGED <<recording, scope, txn_read_holds, dropped_read_holds_rx, watched, collections, instances, timeline_context, oracle_ts, timeline_read_holds, dropped_read_holds, aborted>>

AcquireReadHolds(time, id_bundle, precise) ==
    /\ ~aborted
    /\ IF \E id \in BundleIds(id_bundle) : ~CollectionExists(id)
       THEN \* .expect("collection does not exist")
            /\ aborted' = TRUE
            /\ Return([AcquireArgs(time, id_bundle, precise) EXCEPT !.result = "panic"])
            /\ UNCHANGED <<recording, scope, txn_read_holds, dropped_read_holds_rx, watched, collections, instances, read_policies, timeline_context, oracle_ts, storage_read_capabilities, compute_read_capabilities, timeline_read_holds, live_read_holds, dropped_read_holds, applied>>
       ELSE LET read_holds == NewReadHolds(time, id_bundle)
                too_late == TooLate(read_holds, time)
                s == AcquireStorage(storage_read_capabilities, SetToSeq(HoldsStorageIds(read_holds)), << >>)
                c == AcquireInstances(compute_read_capabilities, read_holds, SetToSeq(DOMAIN HoldsComputeIds(read_holds)), << >>)
                calls == <<Call("storage", s.policy_changes)>> \o c.calls
                set == SetReadPolicies(read_policies, calls, << >>)
            IN  IF precise /\ too_late # {}
                THEN /\ Return([AcquireArgs(time, id_bundle, precise) EXCEPT !.result = "Err", !.too_late = too_late])
                     /\ UNCHANGED <<recording, scope, txn_read_holds, dropped_read_holds_rx, watched, collections, instances, read_policies, timeline_context, oracle_ts, storage_read_capabilities, compute_read_capabilities, timeline_read_holds, live_read_holds, dropped_read_holds, applied, aborted>>
                ELSE /\ Len(live_read_holds) + Len(dropped_read_holds) + TxnHolds < MaxHolds
                     /\ storage_read_capabilities' = s.caps
                     /\ compute_read_capabilities' = c.caps
                     /\ read_policies' = set.read_policies
                     /\ live_read_holds' = Append(live_read_holds, read_holds)
                     /\ applied' = AppliedAcquire(time, id_bundle)
                     /\ Return([AcquireArgs(time, id_bundle, precise) EXCEPT !.holds = read_holds, !.calls = calls, !.before = [storage_read_capabilities |-> storage_read_capabilities, compute_read_capabilities |-> compute_read_capabilities]])
                     /\ UNCHANGED <<recording, scope, txn_read_holds, dropped_read_holds_rx, watched, collections, instances, timeline_context, oracle_ts, timeline_read_holds, dropped_read_holds, aborted>>

-----------------------------------------------------------------------------
(* Coordinator::acquire_read_holds_auto_cleanup.                           *)

\* The vector of the connection replaced by the new ReadHolds.
PushTxnReadHolds_Replace(txn, conn_id, read_holds) == Put(txn, conn_id, <<read_holds>>)

\* self.txn_read_holds.entry(conn_id).or_insert_with(Vec::new).push(read_holds)
PushTxnReadHolds(txn, conn_id, read_holds) == Put(txn, conn_id, Append((IF conn_id \in DOMAIN txn THEN txn[conn_id] ELSE << >>), read_holds))

AutoCleanupArgs(conn_id, time, id_bundle, precise) == [NoOp EXCEPT !.op = "acquire_read_holds_auto_cleanup", !.conn_id = conn_id, !.time = time, !.id_bundle = id_bundle, !.precise = precise]

\* acquire_read_holds(time, id_bundle, precise)?, and on Ok the ReadHolds is
\* pushed on the vector kept under the session's connection id.
AcquireReadHoldsAutoCleanup(conn_id, time, id_bundle, precise) ==
    /\ ~aborted
    /\ IF \E id \in BundleIds(id_bundle) : ~CollectionExists(id)
       THEN \* .expect("collection does not exist")
            /\ aborted' = TRUE
            /\ Return([AutoCleanupArgs(conn_id, time, id_bundle, precise) EXCEPT !.result = "panic"])
            /\ UNCHANGED <<recording, scope, txn_read_holds, dropped_read_holds_rx, watched, collections, instances, read_policies, timeline_context, oracle_ts, storage_read_capabilities, compute_read_capabilities, timeline_read_holds, live_read_holds, dropped_read_holds, applied>>
       ELSE LET read_holds == NewReadHolds(time, id_bundle)
                too_late == TooLate(read_holds, time)
                s == AcquireStorage(storage_read_capabilities, SetToSeq(HoldsStorageIds(read_holds)), << >>)
                c == AcquireInstances(compute_read_capabilities, read_holds, SetToSeq(DOMAIN HoldsComputeIds(read_holds)), << >>)
                calls == <<Call("storage", s.policy_changes)>> \o c.calls
                set == SetReadPolicies(read_policies, calls, << >>)
            IN  IF precise /\ too_late # {}
                THEN \* the ? operator returns the Err
                     /\ Return([AutoCleanupArgs(conn_id, time, id_bundle, precise) EXCEPT !.result = "Err", !.too_late = too_late])
                     /\ UNCHANGED <<recording, scope, txn_read_holds, dropped_read_holds_rx, watched, collections, instances, read_policies, timeline_context, oracle_ts, storage_read_capabilities, compute_read_capabilities, timeline_read_holds, live_read_holds, dropped_read_holds, applied, aborted>>
                ELSE /\ Len(live_read_holds) + Len(dropped_read_holds) + TxnHolds < MaxHolds
                     /\ storage_read_capabilities' = s.caps
                     /\ compute_read_capabilities' = c.caps
                     /\ read_policies' = set.read_policies
                     /\ txn_read_holds' = PushTxnReadHolds(txn_read_holds, conn_id, read_holds)
                     /\ applied' = AppliedAcquire(time, id_bundle)
                     /\ Return([AutoCleanupArgs(conn_id, time, id_bundle, precise) EXCEPT !.holds = read_holds, !.calls = calls, !.before = [storage_read_capabilities |-> storage_read_capabilities, compute_read_capabilities |-> compute_read_capabilities]])
                     /\ UNCHANGED <<recording, scope, dropped_read_holds_rx, watched, collections, instances, timeline_context, oracle_ts, timeline_read_holds, live_read_holds, dropped_read_holds, aborted>>

\* The transaction of a connection ends: its vector is removed and dropped, and
\* Drop for ReadHolds sends each of its ReadHolds over the drop channel.
ClearTransaction(conn_id) ==
    /\ ~aborted
    /\ conn_id \in DOMAIN txn_read_holds
    /\ txn_read_holds' = Remove(txn_read_holds, conn_id)
    /\ dropped_read_holds' = IF dropped_read_holds_rx THEN dropped_read_holds \o txn_read_holds[conn_id] ELSE dropped_read_holds
    /\ Return([NoOp EXCEPT !.op = "clear_transaction", !.conn_id = conn_id])
    /\ UNCHANGED <<recording, scope, dropped_read_holds_rx, watched, collections, instances, read_policies, timeline_context, oracle_ts, storage_read_capabilities, compute_read_capabilities, timeline_read_holds, live_read_holds, applied, aborted>>

-----------------------------------------------------------------------------
(* TimelineReadHolds::extend_with_new.                                     *)

RECURSIVE ExtendWithNew(_, _, _)
\* The bundle of self under a time of other overwritten by other's bundle.
ExtendWithNew_Overwrite(self, other, times) == IF times = << >> THEN [holds |-> self, panicked |-> FALSE] ELSE LET time == Head(times)  self_id_bundle == IF time \in DOMAIN self THEN self[time] ELSE EmptyBundle IN IF ~BundleIsEmpty(BundleIntersection(self_id_bundle, other[time])) THEN [holds |-> Put(self, time, self_id_bundle), panicked |-> TRUE] ELSE ExtendWithNew(Put(self, time, other[time]), other, Tail(times))

\* for (time, other_id_bundle) in other.holds.drain(): assert the bundles under
\* `time` are disjoint, then merge them; `times` is the order of the drain.
ExtendWithNew(self, other, times) == IF times = << >> THEN [holds |-> self, panicked |-> FALSE] ELSE LET time == Head(times)  self_id_bundle == IF time \in DOMAIN self THEN self[time] ELSE EmptyBundle IN IF ~BundleIsEmpty(BundleIntersection(self_id_bundle, other[time])) THEN [holds |-> Put(self, time, self_id_bundle), panicked |-> TRUE] ELSE ExtendWithNew(Put(self, time, BundleExtend(self_id_bundle, other[time])), other, Tail(times))

\* extend_with_new(other) on the timeline's read holds; the assertion aborts
\* with the entries drained before it already merged.
ExtendWithNewCall(other, times) ==
    /\ ~aborted
    /\ LET extended == ExtendWithNew(timeline_read_holds, other, times)
       IN  /\ timeline_read_holds' = extended.holds
           /\ aborted' = extended.panicked
           /\ Return([NoOp EXCEPT !.op = "extend_with_new", !.holds = other, !.read_holdses = <<timeline_read_holds>>, !.result = IF extended.panicked THEN "panic" ELSE "Ok", !.panic = IF extended.panicked THEN "extend_with_new encountered duplicate read holds" ELSE ""])
    /\ UNCHANGED <<recording, scope, txn_read_holds, dropped_read_holds_rx, watched, collections, instances, read_policies, timeline_context, oracle_ts, storage_read_capabilities, compute_read_capabilities, live_read_holds, dropped_read_holds, applied>>

-----------------------------------------------------------------------------
(* Coordinator::initialize_read_policies.                                  *)

\* The closure, had it put the storage ids under the given time without joining their lower frontier.
InitializeReadHolds_AtTime(time, id_bundle) == HoldComputeIds(HoldStorageIds_Unclamped(EmptyMap, time, SetToSeq(id_bundle.storage_ids)), time, SetToSeq(BundleComputePairs(id_bundle)))

\* The closure initialize_read_holds: each id under time.join(its lower frontier).
InitializeReadHolds(time, id_bundle) == HoldComputeIds(HoldStorageIds(EmptyMap, time, SetToSeq(id_bundle.storage_ids)), time, SetToSeq(BundleComputePairs(id_bundle)))

\* partition_ids_by_timeline_context: the part of the bundle in the given context.
PartitionOf(id_bundle, context, contexts) == MkBundle({id \in id_bundle.storage_ids : contexts[id] = context}, {id \in BundleComputeIds(id_bundle) : contexts[id] = context})

\* The keys of id_bundles: Some(time) or None.
SomeTime(time) == <<"Some", time>>

NoTime == <<"None", {}>>

\* id_bundles: the anchored ids by Some(hold time), the others under None.
IdBundles(new_read_holds, unanchored) == LET some == [k \in {SomeTime(f) : f \in DOMAIN new_read_holds} |-> new_read_holds[k[2]]] IN IF BundleIsEmpty(unanchored) THEN some ELSE Put(some, NoTime, unanchored)

\* The (key, id) pairs of the storage ids of id_bundles.
InitStoragePairs(id_bundles) == {p \in (DOMAIN id_bundles) \X StorageIds : p[2] \in id_bundles[p[1]].storage_ids}

\* The (key, instance, id) triples of the compute ids of id_bundles.
InitComputeTriples(id_bundles) == {tr \in (DOMAIN id_bundles) \X Instances \X ComputeIds : tr[2] \in DOMAIN id_bundles[tr[1]].compute_ids /\ tr[3] \in id_bundles[tr[1]].compute_ids[tr[2]]}

RECURSIVE InitializeStorage(_, _, _, _)
\* An initialize that notes policy() before it counts the hold.
InitializeStorage_PolicyFirst(caps, pairs, compaction_window, storage_policy_updates) == IF pairs = << >> THEN [caps |-> caps, storage_policy_updates |-> storage_policy_updates] ELSE LET time == Head(pairs)[1]  id == Head(pairs)[2]  ensured == EnsureStorageCapability(caps, id, compaction_window)  counted == IF time[1] = "Some" THEN [ensured EXCEPT ![id].holds = UpdateIter(@, time[2], 1)] ELSE ensured IN InitializeStorage(counted, Tail(pairs), compaction_window, Append(storage_policy_updates, <<id, Policy(ensured[id])>>))

\* for id in id_bundle.storage_ids: ensure with the window, +1 if Some(time), note policy()
InitializeStorage(caps, pairs, compaction_window, storage_policy_updates) == IF pairs = << >> THEN [caps |-> caps, storage_policy_updates |-> storage_policy_updates] ELSE LET time == Head(pairs)[1]  id == Head(pairs)[2]  ensured == EnsureStorageCapability(caps, id, compaction_window)  counted == IF time[1] = "Some" THEN [ensured EXCEPT ![id].holds = UpdateIter(@, time[2], 1)] ELSE ensured IN InitializeStorage(counted, Tail(pairs), compaction_window, Append(storage_policy_updates, <<id, Policy(counted[id])>>))

RECURSIVE InitializeCompute(_, _, _, _)
\* An initialize that counts a hold for every id, anchored or not: the others at their lower frontier.
InitializeCompute_CountAll(caps, triples, compaction_window, compute_policy_updates) == IF triples = << >> THEN [caps |-> caps, compute_policy_updates |-> compute_policy_updates] ELSE LET time == Head(triples)[1]  compute_instance == Head(triples)[2]  id == Head(triples)[3]  ensured == EnsureComputeCapability(caps, compute_instance, id, compaction_window)  counted == [ensured EXCEPT ![id].holds = UpdateIter(@, IF time[1] = "Some" THEN time[2] ELSE collections[id], 1)]  entry == IF compute_instance \in DOMAIN compute_policy_updates THEN compute_policy_updates ELSE Put(compute_policy_updates, compute_instance, << >>) IN InitializeCompute(counted, Tail(triples), compaction_window, [entry EXCEPT ![compute_instance] = Append(@, <<id, Policy(counted[id])>>)])

\* for id in compute_ids: ensure with the window, +1 if Some(time), note policy() under the instance
InitializeCompute(caps, triples, compaction_window, compute_policy_updates) == IF triples = << >> THEN [caps |-> caps, compute_policy_updates |-> compute_policy_updates] ELSE LET time == Head(triples)[1]  compute_instance == Head(triples)[2]  id == Head(triples)[3]  ensured == EnsureComputeCapability(caps, compute_instance, id, compaction_window)  counted == IF time[1] = "Some" THEN [ensured EXCEPT ![id].holds = UpdateIter(@, time[2], 1)] ELSE ensured  entry == IF compute_instance \in DOMAIN compute_policy_updates THEN compute_policy_updates ELSE Put(compute_policy_updates, compute_instance, << >>) IN InitializeCompute(counted, Tail(triples), compaction_window, [entry EXCEPT ![compute_instance] = Append(@, <<id, Policy(counted[id])>>)])

RECURSIVE CallsOf(_, _)
\* Calls that reach every instance twice with the same policies.
CallsOf_Twice(policies_per_instance, compute_instances) == IF compute_instances = << >> THEN << >> ELSE <<Call(Head(compute_instances), policies_per_instance[Head(compute_instances)]), Call(Head(compute_instances), policies_per_instance[Head(compute_instances)])>> \o CallsOf(policies_per_instance, Tail(compute_instances))

\* One set_read_policy call per instance of the map, in key order.
CallsOf(policies_per_instance, compute_instances) == IF compute_instances = << >> THEN << >> ELSE <<Call(Head(compute_instances), policies_per_instance[Head(compute_instances)])>> \o CallsOf(policies_per_instance, Tail(compute_instances))

\* The ledger after initialize_read_policies: +1 for every anchored id at its hold time.
AppliedInitialize(read_ts, anchored) == [id \in Ids |-> [t \in Times |-> applied[id][t] + (IF id \in BundleIds(anchored) /\ t \in Join(FromElem(read_ts), collections[id]) THEN 1 ELSE 0)]]

InitializeArgs(id_bundle, compaction_window) == [NoOp EXCEPT !.op = "initialize_read_policies", !.id_bundle = id_bundle, !.window = compaction_window]

\* `contexts` is the catalog's answer for the ids of the bundle; `times` is the order
\* in which extend_with_new drains the new holds.
InitializeReadPolicies(id_bundle, compaction_window, contexts) ==
    /\ ~aborted
    /\ \A id \in BundleIds(id_bundle) : HasCapability(id) => \A t \in Times : CapabilityOf(id).holds[t] < MaxCount
    /\ DOMAIN contexts = BundleIds(id_bundle)
    /\ \A id \in (DOMAIN contexts) \cap (DOMAIN timeline_context) : contexts[id] = timeline_context[id]
    /\ LET anchored == PartitionOf(id_bundle, "TimelineDependent", contexts)
           unanchored == PartitionOf(id_bundle, "TimestampIndependent", contexts)
           known == [id \in (DOMAIN timeline_context) \cup (DOMAIN contexts) |-> IF id \in DOMAIN contexts THEN contexts[id] ELSE timeline_context[id]]
       IN  IF \E id \in BundleIds(anchored) : ~CollectionExists(id)
           THEN \* .expect("collection does not exist")
                /\ aborted' = TRUE
                /\ timeline_context' = known
                /\ Return([InitializeArgs(id_bundle, compaction_window) EXCEPT !.result = "panic"])
                /\ UNCHANGED <<recording, scope, txn_read_holds, dropped_read_holds_rx, watched, collections, instances, read_policies, oracle_ts, storage_read_capabilities, compute_read_capabilities, timeline_read_holds, live_read_holds, dropped_read_holds, applied>>
           ELSE \E times \in Orders(DOMAIN InitializeReadHolds(oracle_ts, anchored)) :
                LET new_read_holds == InitializeReadHolds(oracle_ts, anchored)
                    id_bundles == IdBundles(new_read_holds, unanchored)
                    extended == ExtendWithNew(timeline_read_holds, new_read_holds, times)
                    c == InitializeCompute(compute_read_capabilities, SetToSeq(InitComputeTriples(id_bundles)), compaction_window, EmptyMap)
                    s == InitializeStorage(storage_read_capabilities, SetToSeq(InitStoragePairs(id_bundles)), compaction_window, << >>)
                    calls == CallsOf(c.compute_policy_updates, SetToSeq(DOMAIN c.compute_policy_updates)) \o <<Call("storage", s.storage_policy_updates)>>
                    set == SetReadPolicies(read_policies, calls, << >>)
                IN  /\ timeline_context' = known
                    /\ timeline_read_holds' = extended.holds
                    /\ IF extended.panicked
                       THEN \* "extend_with_new encountered duplicate read holds"
                            /\ aborted' = TRUE
                            /\ Return([InitializeArgs(id_bundle, compaction_window) EXCEPT !.result = "panic", !.holds = new_read_holds])
                            /\ UNCHANGED <<read_policies, storage_read_capabilities, compute_read_capabilities, applied>>
                       ELSE /\ compute_read_capabilities' = c.caps
                            /\ storage_read_capabilities' = s.caps
                            /\ applied' = AppliedInitialize(oracle_ts, anchored)
                            /\ read_policies' = set.read_policies
                            /\ aborted' = set.terminated
                            /\ Return([InitializeArgs(id_bundle, compaction_window) EXCEPT !.result = IF set.terminated THEN "panic" ELSE "Ok", !.holds = new_read_holds, !.calls = set.made])
                    /\ UNCHANGED <<recording, scope, txn_read_holds, dropped_read_holds_rx, watched, collections, instances, oracle_ts, live_read_holds, dropped_read_holds>>

-----------------------------------------------------------------------------
(* impl Drop for ReadHolds.                                                *)

\* The sequence s without its i-th element.
Without(s, i) == SubSeq(s, 1, i - 1) \o SubSeq(s, i + 1, Len(s))

\* The destructor, had it released its hold on the spot: the counts of the ids
\* it names are decremented before the coordinator has received anything.
DropReadHolds_Sync(i) ==
    /\ ~aborted \/ ~dropped_read_holds_rx
    /\ i \in 1..Len(live_read_holds)
    /\ live_read_holds' = Without(live_read_holds, i)
    /\ LET inner_holds == live_read_holds[i]
           Released(caps, id) == [t \in Times |-> caps[id].holds[t] - (IF \E f \in DOMAIN inner_holds : t \in f /\ id \in BundleIds(inner_holds[f]) THEN 1 ELSE 0)]
       IN  /\ dropped_read_holds' = Append(dropped_read_holds, inner_holds)
           /\ storage_read_capabilities' = [id \in DOMAIN storage_read_capabilities |-> [storage_read_capabilities[id] EXCEPT !.holds = Released(storage_read_capabilities, id)]]
           /\ compute_read_capabilities' = [id \in DOMAIN compute_read_capabilities |-> [compute_read_capabilities[id] EXCEPT !.holds = Released(compute_read_capabilities, id)]]
           /\ Return([NoOp EXCEPT !.op = "drop", !.holds = inner_holds])
    /\ UNCHANGED <<recording, scope, txn_read_holds, dropped_read_holds_rx, watched, collections, instances, read_policies, timeline_context, oracle_ts, timeline_read_holds, applied, aborted>>

\* The destructor, had it unwrapped the result of the send: a failed send is a
\* panic of the caller instead of a warning.
DropReadHolds_Unwrap(i) ==
    /\ ~aborted \/ ~dropped_read_holds_rx
    /\ i \in 1..Len(live_read_holds)
    /\ live_read_holds' = Without(live_read_holds, i)
    /\ LET inner_holds == live_read_holds[i]
       IN  /\ dropped_read_holds' = IF dropped_read_holds_rx THEN Append(dropped_read_holds, inner_holds) ELSE dropped_read_holds
           /\ Return([NoOp EXCEPT !.op = "drop", !.holds = inner_holds, !.res = IF dropped_read_holds_rx THEN "Ok" ELSE "Err", !.panic = IF dropped_read_holds_rx THEN "" ELSE "unwrap on Err"])
    /\ UNCHANGED <<recording, scope, txn_read_holds, dropped_read_holds_rx, watched, collections, instances, read_policies, timeline_context, oracle_ts, storage_read_capabilities, compute_read_capabilities, timeline_read_holds, applied, aborted>>

\* The destructor, had it sent a copy of the inner state and left the value
\* with its holds: the value can be destroyed again.
DropReadHolds_Keep(i) ==
    /\ ~aborted \/ ~dropped_read_holds_rx
    /\ i \in 1..Len(live_read_holds)
    /\ live_read_holds' = live_read_holds
    /\ LET inner_holds == live_read_holds[i]
           res == IF dropped_read_holds_rx THEN "Ok" ELSE "Err"
           returned == last.op = "acquire_read_holds" /\ last.result = "Ok" /\ i = Len(live_read_holds)
       IN  /\ dropped_read_holds' = IF res = "Ok" THEN Append(dropped_read_holds, inner_holds) ELSE dropped_read_holds
           /\ Return([NoOp EXCEPT !.op = "drop", !.holds = inner_holds, !.res = res, !.round_trip = returned, !.before = IF returned THEN last.before ELSE NoOp.before])
    /\ UNCHANGED <<recording, scope, txn_read_holds, dropped_read_holds_rx, watched, collections, instances, read_policies, timeline_context, oracle_ts, storage_read_capabilities, compute_read_capabilities, timeline_read_holds, applied, aborted>>

\* drop: the inner state is taken out and sent to the coordinator; a failed send
\* (the receiver is gone) is logged and the state is lost.
DropReadHolds(i) ==
    /\ ~aborted \/ ~dropped_read_holds_rx
    /\ i \in 1..Len(live_read_holds)
    /\ live_read_holds' = Without(live_read_holds, i)
    /\ LET inner_holds == live_read_holds[i]
           res == IF dropped_read_holds_rx THEN "Ok" ELSE "Err"
           returned == last.op = "acquire_read_holds" /\ last.result = "Ok" /\ i = Len(live_read_holds)
       IN  /\ dropped_read_holds' = IF res = "Ok" THEN Append(dropped_read_holds, inner_holds) ELSE dropped_read_holds
           /\ Return([NoOp EXCEPT !.op = "drop", !.holds = inner_holds, !.res = res, !.round_trip = returned, !.before = IF returned THEN last.before ELSE NoOp.before])
    /\ UNCHANGED <<recording, scope, txn_read_holds, dropped_read_holds_rx, watched, collections, instances, read_policies, timeline_context, oracle_ts, storage_read_capabilities, compute_read_capabilities, timeline_read_holds, applied, aborted>>

-----------------------------------------------------------------------------
(* Coordinator::release_read_holds.                                        *)

RECURSIVE ReleaseStorage(_, _, _)
\* A release that treats the hold as a flag: the time is cleared, however often it is held.
ReleaseStorage_Boolean(caps, pairs, policy_changes) == IF pairs = << >> THEN [caps |-> caps, policy_changes |-> policy_changes] ELSE LET time == Head(pairs)[1]  id == Head(pairs)[2] IN IF id \in DOMAIN caps THEN LET counted == [caps EXCEPT ![id].holds = [t \in Times |-> IF t \in time THEN 0 ELSE @[t]]] IN ReleaseStorage(counted, Tail(pairs), Append(policy_changes, <<id, Policy(counted[id])>>)) ELSE ReleaseStorage(caps, Tail(pairs), policy_changes)

\* A release that makes a capability for an id that has none, and pushes its policy.
ReleaseStorage_Recreate(caps, pairs, policy_changes) == IF pairs = << >> THEN [caps |-> caps, policy_changes |-> policy_changes] ELSE LET time == Head(pairs)[1]  id == Head(pairs)[2] IN IF id \in DOMAIN caps THEN LET counted == [caps EXCEPT ![id].holds = UpdateIter(@, time, -1)] IN ReleaseStorage(counted, Tail(pairs), Append(policy_changes, <<id, Policy(counted[id])>>)) ELSE ReleaseStorage(Put(caps, id, NewCapability(ValidFrom(collections[id]))), Tail(pairs), Append(policy_changes, <<id, Policy(NewCapability(ValidFrom(collections[id])))>>))

\* A release that notes policy() before it gives the count back.
ReleaseStorage_PolicyFirst(caps, pairs, policy_changes) == IF pairs = << >> THEN [caps |-> caps, policy_changes |-> policy_changes] ELSE LET time == Head(pairs)[1]  id == Head(pairs)[2] IN IF id \in DOMAIN caps THEN LET counted == [caps EXCEPT ![id].holds = UpdateIter(@, time, -1)] IN ReleaseStorage(counted, Tail(pairs), Append(policy_changes, <<id, Policy(caps[id])>>)) ELSE ReleaseStorage(caps, Tail(pairs), policy_changes)

\* for (time, id) in read_holds.storage_ids(): if a capability exists, -1, note policy()
ReleaseStorage(caps, pairs, policy_changes) == IF pairs = << >> THEN [caps |-> caps, policy_changes |-> policy_changes] ELSE LET time == Head(pairs)[1]  id == Head(pairs)[2] IN IF id \in DOMAIN caps THEN LET counted == [caps EXCEPT ![id].holds = UpdateIter(@, time, -1)] IN ReleaseStorage(counted, Tail(pairs), Append(policy_changes, <<id, Policy(counted[id])>>)) ELSE ReleaseStorage(caps, Tail(pairs), policy_changes)

RECURSIVE ReleaseCompute(_, _, _)
\* A release that notes the policy but gives no count back.
ReleaseCompute_Kept(caps, triples, policy_changes_per_instance) == IF triples = << >> THEN [caps |-> caps, policy_changes_per_instance |-> policy_changes_per_instance] ELSE LET compute_instance == Head(triples)[1]  time == Head(triples)[2]  id == Head(triples)[3]  entry == IF compute_instance \in DOMAIN policy_changes_per_instance THEN policy_changes_per_instance ELSE Put(policy_changes_per_instance, compute_instance, << >>) IN IF id \in DOMAIN caps THEN LET counted == [caps EXCEPT ![id].holds = UpdateIter(@, time, 0)] IN ReleaseCompute(counted, Tail(triples), [entry EXCEPT ![compute_instance] = Append(@, <<id, Policy(counted[id])>>)]) ELSE ReleaseCompute(caps, Tail(triples), entry)

\* Only the first policy of a compute id noted in one release.
ReleaseCompute_PushOnce(caps, triples, policy_changes_per_instance) == IF triples = << >> THEN [caps |-> caps, policy_changes_per_instance |-> policy_changes_per_instance] ELSE LET compute_instance == Head(triples)[1]  time == Head(triples)[2]  id == Head(triples)[3]  entry == IF compute_instance \in DOMAIN policy_changes_per_instance THEN policy_changes_per_instance ELSE Put(policy_changes_per_instance, compute_instance, << >>) IN IF id \in DOMAIN caps THEN LET counted == [caps EXCEPT ![id].holds = UpdateIter(@, time, -1)] IN ReleaseCompute(counted, Tail(triples), [entry EXCEPT ![compute_instance] = IF \E k \in 1..Len(@) : @[k][1] = id THEN @ ELSE Append(@, <<id, Policy(counted[id])>>)]) ELSE ReleaseCompute(caps, Tail(triples), entry)

\* for (time, id) in compute_ids: if a capability exists, -1, note policy() under the instance
ReleaseCompute(caps, triples, policy_changes_per_instance) == IF triples = << >> THEN [caps |-> caps, policy_changes_per_instance |-> policy_changes_per_instance] ELSE LET compute_instance == Head(triples)[1]  time == Head(triples)[2]  id == Head(triples)[3]  entry == IF compute_instance \in DOMAIN policy_changes_per_instance THEN policy_changes_per_instance ELSE Put(policy_changes_per_instance, compute_instance, << >>) IN IF id \in DOMAIN caps THEN LET counted == [caps EXCEPT ![id].holds = UpdateIter(@, time, -1)] IN ReleaseCompute(counted, Tail(triples), [entry EXCEPT ![compute_instance] = Append(@, <<id, Policy(counted[id])>>)]) ELSE ReleaseCompute(caps, Tail(triples), entry)

RECURSIVE StoragePairsOf(_)
\* read_holdses.iter() then storage_ids(): the (time, id) pairs in the order released
StoragePairsOf(read_holdses) == IF read_holdses = << >> THEN << >> ELSE SetToSeq(HoldsStorageIds(Head(read_holdses))) \o StoragePairsOf(Tail(read_holdses))

\* The (instance, time, id) triples of one ReadHoldsInner's compute ids.
ComputeTriples(holds) == {tr \in Instances \X (DOMAIN holds) \X ComputeIds : tr[1] \in DOMAIN holds[tr[2]].compute_ids /\ tr[3] \in holds[tr[2]].compute_ids[tr[1]]}

RECURSIVE ComputeTriplesOf(_)
\* read_holdses.iter() then compute_ids(): the (instance, time, id) triples in the order released
ComputeTriplesOf(read_holdses) == IF read_holdses = << >> THEN << >> ELSE SetToSeq(ComputeTriples(Head(read_holdses))) \o ComputeTriplesOf(Tail(read_holdses))

RECURSIVE ReleaseCalls(_, _)
\* The calls of a release, had it not asked whether the instance exists.
ReleaseCalls_Unguarded(policy_changes_per_instance, compute_instances) == IF compute_instances = << >> THEN << >> ELSE (IF TRUE THEN <<Call(Head(compute_instances), policy_changes_per_instance[Head(compute_instances)])>> ELSE << >>) \o ReleaseCalls(policy_changes_per_instance, Tail(compute_instances))

\* for (instance, policy_changes): set_read_policy only if compute.instance_exists(instance)
ReleaseCalls(policy_changes_per_instance, compute_instances) == IF compute_instances = << >> THEN << >> ELSE (IF Head(compute_instances) \in instances THEN <<Call(Head(compute_instances), policy_changes_per_instance[Head(compute_instances)])>> ELSE << >>) \o ReleaseCalls(policy_changes_per_instance, Tail(compute_instances))

\* The number of holds of the vector that name id at time t.
Naming(read_holdses, id, t) == Cardinality({n \in 1..Len(read_holdses) : \E f \in DOMAIN read_holdses[n] : t \in f /\ id \in BundleIds(read_holdses[n][f])})

\* The ledger after a release: -1 per released hold naming the id, where a capability exists.
AppliedRelease(read_holdses) == [id \in Ids |-> [t \in Times |-> applied[id][t] - (IF HasCapability(id) THEN Naming(read_holdses, id, t) ELSE 0)]]

\* release_read_holds, had it thrown away what it was given: the holds leave
\* the channel and no count changes.
ReleaseReadHolds_Lost(n) ==
    /\ ~aborted
    /\ n \in 1..Len(dropped_read_holds)
    /\ dropped_read_holds' = SubSeq(dropped_read_holds, n + 1, Len(dropped_read_holds))
    /\ Return([NoOp EXCEPT !.op = "release_read_holds", !.read_holdses = SubSeq(dropped_read_holds, 1, n), !.followed = (watched \in 1..n)])
    /\ watched' = IF watched > n THEN watched - n ELSE 0
    /\ UNCHANGED <<recording, scope, txn_read_holds, dropped_read_holds_rx, collections, instances, read_policies, timeline_context, oracle_ts, storage_read_capabilities, compute_read_capabilities, timeline_read_holds, live_read_holds, applied, aborted>>

\* release_read_holds on the first n messages of the drop channel.
ReleaseReadHolds(n) ==
    /\ ~aborted
    /\ n \in 1..Len(dropped_read_holds)
    /\ LET read_holdses == SubSeq(dropped_read_holds, 1, n)
           s == ReleaseStorage(storage_read_capabilities, StoragePairsOf(read_holdses), << >>)
           c == ReleaseCompute(compute_read_capabilities, ComputeTriplesOf(read_holdses), EmptyMap)
           calls == <<Call("storage", s.policy_changes)>> \o ReleaseCalls(c.policy_changes_per_instance, SetToSeq(DOMAIN c.policy_changes_per_instance))
       IN  /\ storage_read_capabilities' = s.caps
           /\ compute_read_capabilities' = c.caps
           /\ \E batched \in {calls} : read_policies' = SetReadPolicies(read_policies, batched, << >>).read_policies
           /\ dropped_read_holds' = SubSeq(dropped_read_holds, n + 1, Len(dropped_read_holds))
           /\ applied' = AppliedRelease(read_holdses)
           /\ LET returned == last.op = "drop" /\ last.round_trip /\ read_holdses = <<last.holds>>
              IN  Return([NoOp EXCEPT !.op = "release_read_holds", !.read_holdses = read_holdses, !.calls = calls, !.followed = (watched \in 1..n), !.round_trip = returned, !.before = IF returned THEN last.before ELSE NoOp.before])
    /\ watched' = IF watched > n THEN watched - n ELSE 0
    /\ UNCHANGED <<recording, scope, txn_read_holds, dropped_read_holds_rx, collections, instances, timeline_context, oracle_ts, timeline_read_holds, live_read_holds, aborted>>

-----------------------------------------------------------------------------
(* Coordinator::update_read_holds.                                         *)

\* The state update_read_holds works on: the holds it returns, the capability
\* tables, the policy changes collected so far and the panic that ended it, if any.
UpdateState(scaps, ccaps) == [read_holds |-> EmptyMap, storage_read_capabilities |-> scaps, compute_read_capabilities |-> ccaps, storage_policy_changes |-> << >>, compute_policy_changes |-> EmptyMap, panic |-> ""]

\* A downgrade that gives up the old time without counting the new one.
MoveHold_Uncounted(caps, id, old_time, new_time) == [caps EXCEPT ![id].holds = UpdateIter(@, old_time, -1)]

\* +1 at the new time, then -1 at the old time.
MoveHold(caps, id, old_time, new_time) == [caps EXCEPT ![id].holds = UpdateIter(UpdateIter(@, new_time, 1), old_time, -1)]

RECURSIVE UpdateStorageIds(_, _, _, _)
\* A downgrade that moves the hold before it looks at the collection's lower frontier.
UpdateStorageIds_MoveFirst(st, old_time, new_time, ids) == IF st.panic # "" \/ ids = << >> THEN st ELSE LET id == Head(ids) IN IF ~CollectionExists(id) THEN [st EXCEPT !.panic = "id does not exist"] ELSE IF ~Le(collections[id], new_time) THEN [st EXCEPT !.panic = "read frontier not less-equal new time", !.storage_read_capabilities = IF id \in DOMAIN @ THEN MoveHold(@, id, old_time, new_time) ELSE @] ELSE IF id \notin DOMAIN st.storage_read_capabilities THEN [st EXCEPT !.panic = "id does not exist"] ELSE LET moved == MoveHold(st.storage_read_capabilities, id, old_time, new_time) IN UpdateStorageIds([st EXCEPT !.storage_read_capabilities = moved, !.storage_policy_changes = Append(@, <<id, Policy(moved[id])>>)], old_time, new_time, Tail(ids))

\* for id in id_bundle.storage_ids: look the collection up, assert its lower
\* frontier is less-equal the new time, move the hold, note policy()
UpdateStorageIds(st, old_time, new_time, ids) == IF st.panic # "" \/ ids = << >> THEN st ELSE LET id == Head(ids) IN IF ~CollectionExists(id) THEN [st EXCEPT !.panic = "id does not exist"] ELSE IF ~Le(collections[id], new_time) THEN [st EXCEPT !.panic = "read frontier not less-equal new time"] ELSE IF id \notin DOMAIN st.storage_read_capabilities THEN [st EXCEPT !.panic = "id does not exist"] ELSE LET moved == MoveHold(st.storage_read_capabilities, id, old_time, new_time) IN UpdateStorageIds([st EXCEPT !.storage_read_capabilities = moved, !.storage_policy_changes = Append(@, <<id, Policy(moved[id])>>)], old_time, new_time, Tail(ids))

RECURSIVE UpdateComputeIds(_, _, _, _)
\* A downgrade that passes over a compute id without capability, as release does.
UpdateComputeIds_Skip(st, old_time, new_time, pairs) == IF st.panic # "" \/ pairs = << >> THEN st ELSE LET compute_instance == Head(pairs)[1]  id == Head(pairs)[2] IN IF ~CollectionExists(id) THEN [st EXCEPT !.panic = "id does not exist"] ELSE IF ~Le(collections[id], new_time) THEN [st EXCEPT !.panic = "read frontier not less-equal new time"] ELSE IF id \notin DOMAIN st.compute_read_capabilities THEN UpdateComputeIds(st, old_time, new_time, Tail(pairs)) ELSE LET moved == MoveHold(st.compute_read_capabilities, id, old_time, new_time)  entry == IF compute_instance \in DOMAIN st.compute_policy_changes THEN st.compute_policy_changes ELSE Put(st.compute_policy_changes, compute_instance, << >>) IN UpdateComputeIds([st EXCEPT !.compute_read_capabilities = moved, !.compute_policy_changes = [entry EXCEPT ![compute_instance] = Append(@, <<id, Policy(moved[id])>>)]], old_time, new_time, Tail(pairs))

\* for (compute_instance, compute_ids) in id_bundle.compute_ids: the same, per id
UpdateComputeIds(st, old_time, new_time, pairs) == IF st.panic # "" \/ pairs = << >> THEN st ELSE LET compute_instance == Head(pairs)[1]  id == Head(pairs)[2] IN IF ~CollectionExists(id) THEN [st EXCEPT !.panic = "id does not exist"] ELSE IF ~Le(collections[id], new_time) THEN [st EXCEPT !.panic = "read frontier not less-equal new time"] ELSE IF id \notin DOMAIN st.compute_read_capabilities THEN [st EXCEPT !.panic = "id does not exist"] ELSE LET moved == MoveHold(st.compute_read_capabilities, id, old_time, new_time)  entry == IF compute_instance \in DOMAIN st.compute_policy_changes THEN st.compute_policy_changes ELSE Put(st.compute_policy_changes, compute_instance, << >>) IN UpdateComputeIds([st EXCEPT !.compute_read_capabilities = moved, !.compute_policy_changes = [entry EXCEPT ![compute_instance] = Append(@, <<id, Policy(moved[id])>>)]], old_time, new_time, Tail(pairs))

\* An entry that takes the place of what the returned holds already have under the time.
ExtendEntry_Replace(holds, time, id_bundle) == Put(holds, time, id_bundle)

\* read_holds.holds.entry(time).or_default().extend(&id_bundle)
ExtendEntry(holds, time, id_bundle) == Put(holds, time, BundleExtend(IF time \in DOMAIN holds THEN holds[time] ELSE EmptyBundle, id_bundle))

RECURSIVE UpdateEntries(_, _, _, _)
\* A downgrade that treats every entry as changed.
UpdateEntries_All(st, old_holds, new_time, times) == IF st.panic # "" \/ times = << >> THEN st ELSE LET old_time == Head(times)  id_bundle == old_holds[old_time]  joined == Join(old_time, new_time) IN IF old_time \in DOMAIN old_holds THEN UpdateEntries(UpdateComputeIds(UpdateStorageIds([st EXCEPT !.read_holds = ExtendEntry(@, joined, id_bundle)], old_time, joined, SetToSeq(id_bundle.storage_ids)), old_time, joined, SetToSeq(BundleComputePairs(id_bundle))), old_holds, new_time, Tail(times)) ELSE UpdateEntries([st EXCEPT !.read_holds = ExtendEntry(@, old_time, id_bundle)], old_holds, new_time, Tail(times))

\* for (old_time, id_bundle) in old_holds, in the order `times`
UpdateEntries(st, old_holds, new_time, times) == IF st.panic # "" \/ times = << >> THEN st ELSE LET old_time == Head(times)  id_bundle == old_holds[old_time]  joined == Join(old_time, new_time) IN IF old_time # joined THEN UpdateEntries(UpdateComputeIds(UpdateStorageIds([st EXCEPT !.read_holds = ExtendEntry(@, joined, id_bundle)], old_time, joined, SetToSeq(id_bundle.storage_ids)), old_time, joined, SetToSeq(BundleComputePairs(id_bundle))), old_holds, new_time, Tail(times)) ELSE UpdateEntries([st EXCEPT !.read_holds = ExtendEntry(@, old_time, id_bundle)], old_holds, new_time, Tail(times))

\* The ledger after update_read_holds: per moved entry naming the id, +1 at the
\* joined time and -1 at the old time.
AppliedUpdate(old_holds, new_time) == [id \in Ids |-> [t \in Times |-> applied[id][t] + Cardinality({f \in DOMAIN old_holds : id \in BundleIds(old_holds[f]) /\ Join(f, new_time) # f /\ t \in Join(f, new_time)}) - Cardinality({f \in DOMAIN old_holds : id \in BundleIds(old_holds[f]) /\ Join(f, new_time) # f /\ t \in f})]]

\* update_read_holds on the timeline's read holds; the caller stores what it returns.
UpdateReadHolds(new_time) ==
    /\ ~aborted
    /\ DOMAIN timeline_read_holds # {}
    /\ \E times \in Orders(DOMAIN timeline_read_holds) :
        LET st == UpdateEntries(UpdateState(storage_read_capabilities, compute_read_capabilities), timeline_read_holds, FromElem(new_time), times)
            calls == <<Call("storage", st.storage_policy_changes)>> \o CallsOf(st.compute_policy_changes, SetToSeq(DOMAIN st.compute_policy_changes))
            set == SetReadPolicies(read_policies, calls, << >>)
            ran == [NoOp EXCEPT !.op = "update_read_holds", !.time = new_time, !.read_holdses = <<timeline_read_holds>>]
        IN  /\ storage_read_capabilities' = st.storage_read_capabilities
            /\ compute_read_capabilities' = st.compute_read_capabilities
            /\ IF st.panic # ""
               THEN /\ aborted' = TRUE
                    /\ Return([ran EXCEPT !.result = "panic", !.panic = st.panic])
                    /\ UNCHANGED <<read_policies, timeline_read_holds, applied>>
               ELSE /\ read_policies' = set.read_policies
                    /\ aborted' = set.terminated
                    /\ timeline_read_holds' = st.read_holds
                    /\ applied' = AppliedUpdate(timeline_read_holds, FromElem(new_time))
                    /\ Return([ran EXCEPT !.result = IF set.terminated THEN "panic" ELSE "Ok", !.holds = st.read_holds, !.calls = set.made])
    /\ UNCHANGED <<recording, scope, txn_read_holds, dropped_read_holds_rx, watched, collections, instances, timeline_context, oracle_ts, live_read_holds, dropped_read_holds>>

-----------------------------------------------------------------------------
(* Coordinator::update_storage_base_read_policies,                         *)
(* update_compute_base_read_policies.                                      *)

RECURSIVE UpdateBase(_, _, _)
\* The capability replaced by a new one with the base policy and no holds.
UpdateBase_NewCapability(caps, base_policies, policies) == IF base_policies = << >> THEN [caps |-> caps, policies |-> policies, panicked |-> FALSE] ELSE LET id == Head(base_policies)[1]  base_policy == Head(base_policies)[2] IN IF id \notin DOMAIN caps THEN [caps |-> caps, policies |-> policies, panicked |-> TRUE] ELSE LET set == [caps EXCEPT ![id] = NewCapability(base_policy)] IN UpdateBase(set, Tail(base_policies), Append(policies, <<id, Policy(set[id])>>))

\* for (id, base_policy) in base_policies: the capability must exist ("coord out
\* of sync"); overwrite its base_policy, note policy()
UpdateBase(caps, base_policies, policies) == IF base_policies = << >> THEN [caps |-> caps, policies |-> policies, panicked |-> FALSE] ELSE LET id == Head(base_policies)[1]  base_policy == Head(base_policies)[2] IN IF id \notin DOMAIN caps THEN [caps |-> caps, policies |-> policies, panicked |-> TRUE] ELSE LET set == [caps EXCEPT ![id].base_policy = base_policy] IN UpdateBase(set, Tail(base_policies), Append(policies, <<id, Policy(set[id])>>))

UpdateStorageBaseReadPolicies(id, base_policy) ==
    /\ ~aborted
    /\ LET r == UpdateBase(storage_read_capabilities, <<(<<id, base_policy>>)>>, << >>)
           set == SetReadPolicies(read_policies, <<Call("storage", r.policies)>>, << >>)
           ran == [NoOp EXCEPT !.op = "update_storage_base_read_policies", !.id = id, !.policy = base_policy]
       IN  /\ storage_read_capabilities' = r.caps
           /\ IF r.panicked
              THEN /\ aborted' = TRUE
                   /\ Return([ran EXCEPT !.result = "panic", !.panic = "coord out of sync"])
                   /\ UNCHANGED read_policies
              ELSE /\ read_policies' = set.read_policies
                   /\ Return([ran EXCEPT !.calls = set.made])
                   /\ UNCHANGED aborted
    /\ UNCHANGED <<recording, scope, txn_read_holds, dropped_read_holds_rx, watched, collections, instances, timeline_context, oracle_ts, compute_read_capabilities, timeline_read_holds, live_read_holds, dropped_read_holds, applied>>

\* One group of update_compute_base_read_policies: the ids of one cluster.
UpdateComputeBaseReadPolicies(cluster_id, id, base_policy) ==
    /\ ~aborted
    /\ LET r == UpdateBase(compute_read_capabilities, <<(<<id, base_policy>>)>>, << >>)
           set == SetReadPolicies(read_policies, <<Call(cluster_id, r.policies)>>, << >>)
           ran == [NoOp EXCEPT !.op = "update_compute_base_read_policies", !.id = id, !.policy = base_policy]
       IN  /\ compute_read_capabilities' = r.caps
           /\ IF r.panicked
              THEN /\ aborted' = TRUE
                   /\ Return([ran EXCEPT !.result = "panic", !.panic = "coord out of sync"])
                   /\ UNCHANGED read_policies
              ELSE /\ read_policies' = set.read_policies
                   /\ aborted' = set.terminated
                   /\ Return([ran EXCEPT !.result = IF set.terminated THEN "panic" ELSE "Ok", !.calls = set.made])
    /\ UNCHANGED <<recording, scope, txn_read_holds, dropped_read_holds_rx, watched, collections, instances, timeline_context, oracle_ts, storage_read_capabilities, timeline_read_holds, live_read_holds, dropped_read_holds, applied>>

-----------------------------------------------------------------------------
(* TimelineReadHolds::remove_storage_id, remove_compute_id.                *)

\* self.holds.retain(|_, id_bundle| !id_bundle.is_empty())
Retain(holds) == [f \in {g \in DOMAIN holds : ~BundleIsEmpty(holds[g])} |-> holds[f]]

\* for (_, id_bundle) in &mut self.holds: id_bundle.storage_ids.remove(id)
WithoutStorageId(holds, id) == [f \in DOMAIN holds |-> [holds[f] EXCEPT !.storage_ids = @ \ {id}]]

\* The instance key kept with an empty id set.
WithoutComputeId_KeepInstance(holds, compute_instance, id) == [f \in DOMAIN holds |-> IF compute_instance \in DOMAIN holds[f].compute_ids THEN [holds[f] EXCEPT !.compute_ids[compute_instance] = @ \ {id}] ELSE holds[f]]

\* for (_, id_bundle) in &mut self.holds: remove id from the instance's ids, and
\* the instance when it has no id left
WithoutComputeId(holds, compute_instance, id) == [f \in DOMAIN holds |-> IF compute_instance \in DOMAIN holds[f].compute_ids THEN (IF holds[f].compute_ids[compute_instance] \ {id} = {} THEN [holds[f] EXCEPT !.compute_ids = Remove(@, compute_instance)] ELSE [holds[f] EXCEPT !.compute_ids[compute_instance] = @ \ {id}]) ELSE holds[f]]

\* remove_storage_id on the timeline's read holds
RemoveStorageId(id) ==
    /\ ~aborted
    /\ timeline_read_holds' = Retain(WithoutStorageId(timeline_read_holds, id))
    /\ Return([NoOp EXCEPT !.op = "remove_storage_id", !.id = id, !.read_holdses = <<timeline_read_holds>>])
    /\ UNCHANGED <<recording, scope, txn_read_holds, dropped_read_holds_rx, watched, collections, instances, read_policies, timeline_context, oracle_ts, storage_read_capabilities, compute_read_capabilities, live_read_holds, dropped_read_holds, applied, aborted>>

\* remove_compute_id on the timeline's read holds
RemoveComputeId(compute_instance, id) ==
    /\ ~aborted
    /\ timeline_read_holds' = Retain(WithoutComputeId(timeline_read_holds, compute_instance, id))
    /\ Return([NoOp EXCEPT !.op = "remove_compute_id", !.id = id, !.read_holdses = <<timeline_read_holds>>])
    /\ UNCHANGED <<recording, scope, txn_read_holds, dropped_read_holds_rx, watched, collections, instances, read_policies, timeline_context, oracle_ts, storage_read_capabilities, compute_read_capabilities, live_read_holds, dropped_read_holds, applied, aborted>>

-----------------------------------------------------------------------------
(* Coordinator::drop_storage_read_policy, drop_compute_read_policy.        *)

\* The holds of the capability cleared, the capability kept.
DropStorageReadPolicy_Clear(id) ==
    /\ ~aborted
    /\ storage_read_capabilities' = IF id \in DOMAIN storage_read_capabilities THEN [storage_read_capabilities EXCEPT ![id].holds = ZeroHolds] ELSE storage_read_capabilities
    /\ applied' = [applied EXCEPT ![id] = ZeroHolds]
    /\ Return([NoOp EXCEPT !.op = "drop_storage_read_policy", !.id = id, !.existed = (id \in DOMAIN storage_read_capabilities)])
    /\ UNCHANGED <<recording, scope, txn_read_holds, dropped_read_holds_rx, watched, collections, instances, read_policies, timeline_context, oracle_ts, compute_read_capabilities, timeline_read_holds, live_read_holds, dropped_read_holds, aborted>>

DropStorageReadPolicy(id) ==
    /\ ~aborted
    /\ storage_read_capabilities' = Remove(storage_read_capabilities, id)
    /\ applied' = [applied EXCEPT ![id] = ZeroHolds]
    /\ Return([NoOp EXCEPT !.op = "drop_storage_read_policy", !.id = id, !.existed = (id \in DOMAIN storage_read_capabilities)])
    /\ UNCHANGED <<recording, scope, txn_read_holds, dropped_read_holds_rx, watched, collections, instances, read_policies, timeline_context, oracle_ts, compute_read_capabilities, timeline_read_holds, live_read_holds, dropped_read_holds, aborted>>

DropComputeReadPolicy(id) ==
    /\ ~aborted
    /\ compute_read_capabilities' = Remove(compute_read_capabilities, id)
    /\ applied' = [applied EXCEPT ![id] = ZeroHolds]
    /\ Return([NoOp EXCEPT !.op = "drop_compute_read_policy", !.id = id, !.existed = (id \in DOMAIN compute_read_capabilities)])
    /\ UNCHANGED <<recording, scope, txn_read_holds, dropped_read_holds_rx, watched, collections, instances, read_policies, timeline_context, oracle_ts, storage_read_capabilities, timeline_read_holds, live_read_holds, dropped_read_holds, aborted>>

-----------------------------------------------------------------------------
(* The controllers' own steps.                                             *)

\* A controller advances a collection's lower frontier, never beyond what the
\* policy last set allows for some write frontier.
AdvanceLower(id, upper, lower) ==
    /\ ~aborted
    /\ id \in DOMAIN collections
    /\ id \in DOMAIN read_policies
    /\ lower # collections[id]
    /\ Le(collections[id], lower)
    /\ Le(lower, PolicyFrontier(read_policies[id], upper))
    /\ collections' = [collections EXCEPT ![id] = lower]
    /\ Return([NoOp EXCEPT !.op = "advance_lower", !.id = id])
    /\ UNCHANGED <<recording, scope, txn_read_holds, dropped_read_holds_rx, watched, instances, read_policies, timeline_context, oracle_ts, storage_read_capabilities, compute_read_capabilities, timeline_read_holds, live_read_holds, dropped_read_holds, applied, aborted>>

\* A controller drops a collection, and with it the policy set for it.
DropCollection(id) ==
    /\ ~aborted
    /\ id \in DOMAIN collections
    /\ collections' = Remove(collections, id)
    /\ read_policies' = Remove(read_policies, id)
    /\ Return([NoOp EXCEPT !.op = "drop_collection", !.id = id])
    /\ UNCHANGED <<recording, scope, txn_read_holds, dropped_read_holds_rx, watched, instances, timeline_context, oracle_ts, storage_read_capabilities, compute_read_capabilities, timeline_read_holds, live_read_holds, dropped_read_holds, applied, aborted>>

\* The compute controller drops an instance.
DropInstance(instance) ==
    /\ ~aborted
    /\ instance \in instances
    /\ instances' = instances \ {instance}
    /\ Return([NoOp EXCEPT !.op = "drop_instance", !.id = instance])
    /\ UNCHANGED <<recording, scope, txn_read_holds, dropped_read_holds_rx, watched, collections, read_policies, timeline_context, oracle_ts, storage_read_capabilities, compute_read_capabilities, timeline_read_holds, live_read_holds, dropped_read_holds, applied, aborted>>

\* The timeline's oracle moves its read timestamp forward.
AdvanceOracle ==
    /\ ~aborted
    /\ oracle_ts < MaxTime
    /\ oracle_ts' = oracle_ts + 1
    /\ Return([NoOp EXCEPT !.op = "advance_oracle"])
    /\ UNCHANGED <<recording, scope, txn_read_holds, dropped_read_holds_rx, watched, collections, instances, read_policies, timeline_context, storage_read_capabilities, compute_read_capabilities, timeline_read_holds, live_read_holds, dropped_read_holds, applied, aborted>>

\* The coordinator shuts down: the receiving end of the drop channel goes away,
\* and with it what was still queued.  The callers keep their ReadHolds.
Shutdown ==
    /\ ~aborted
    /\ aborted' = TRUE
    /\ dropped_read_holds_rx' = FALSE
    /\ dropped_read_holds' = << >>
    /\ watched' = 0
    /\ Return([NoOp EXCEPT !.op = "shutdown"])
    /\ UNCHANGED <<recording, scope, txn_read_holds, collections, instances, read_policies, timeline_context, oracle_ts, storage_read_capabilities, compute_read_capabilities, timeline_read_holds, live_read_holds, applied>>

\* An observer picks one hold that waits in the drop channel and follows it
\* until the coordinator has received it.
Watch(k) ==
    /\ ~aborted
    /\ watched = 0
    /\ k \in 1..Len(dropped_read_holds)
    /\ watched' = k
    /\ UNCHANGED <<recording, scope, txn_read_holds, dropped_read_holds_rx, last, collections, instances, read_policies, timeline_context, oracle_ts, storage_read_capabilities, compute_read_capabilities, timeline_read_holds, live_read_holds, dropped_read_holds, applied, aborted>>

-----------------------------------------------------------------------------

\* The life of short-lived holds: acquire, destroy, release.
NextChannel ==
    \/ \E time \in Times, id_bundle \in Bundles, precise \in BOOLEAN : AcquireReadHolds(time, id_bundle, precise)
    \/ \E i \in 1..MaxHolds : DropReadHolds(i)
    \/ \E n \in 1..MaxHolds : ReleaseReadHolds(n)

\* The life of short-lived holds while the controllers compact.
NextHolds ==
    \/ NextChannel
    \/ \E id \in scope, upper \in Uppers, lower \in Frontiers : AdvanceLower(id, upper, lower)

\* Base policies change.
NextBase ==
    \/ \E id \in StorageIds \cap scope, base_policy \in BasePolicies : UpdateStorageBaseReadPolicies(id, base_policy)
    \/ \E id \in ComputeIds \cap scope, base_policy \in BasePolicies : UpdateComputeBaseReadPolicies(InstanceOf(id), id, base_policy)

\* The timeline's holds: collections are initialized and the timeline's holds
\* are downgraded.
NextTimeline ==
    \/ \E id_bundle \in Bundles, compaction_window \in CompactionWindows : \E contexts \in [BundleIds(id_bundle) -> TimelineContexts] : InitializeReadPolicies(id_bundle, compaction_window, contexts)
    \/ \E new_time \in Times : UpdateReadHolds(new_time)

\* Capabilities are dropped.
NextDrops ==
    \/ \E id \in StorageIds \cap scope : DropStorageReadPolicy(id)
    \/ \E id \in ComputeIds \cap scope : DropComputeReadPolicy(id)

\* Collections leave the timeline's holds.
NextRemove ==
    \/ \E id \in StorageIds \cap scope : RemoveStorageId(id)
    \/ \E id \in ComputeIds \cap scope : RemoveComputeId(InstanceOf(id), id)

\* The world around the coordinator: the oracle advances, collections and
\* instances go away.
NextEnv ==
    \/ AdvanceOracle
    \/ \E id \in scope : DropCollection(id)
    \/ \E instance \in Instances : DropInstance(instance)

\* Holds are acquired for the transactions of connections, and transactions end.
NextTxn ==
    \/ \E conn_id \in ConnIds, time \in Times, id_bundle \in Bundles, precise \in BOOLEAN : AcquireReadHoldsAutoCleanup(conn_id, time, id_bundle, precise)
    \/ \E conn_id \in ConnIds : ClearTransaction(conn_id)

\* Collections and instances go away.
NextLost ==
    \/ \E id \in scope : DropCollection(id)
    \/ \E instance \in Instances : DropInstance(instance)

\* A hold in the drop channel is followed.
NextWatch == \E k \in 1..MaxHolds : Watch(k)

Next == NextHolds \/ NextTxn \/ NextBase \/ NextTimeline \/ NextRemove \/ NextDrops \/ NextEnv \/ NextWatch \/ Shutdown

\* Every operation, on one collection at a time, without history.
Spec == Init /\ [][Next]_vars

\* Short-lived holds on both collections, with history.
SpecHolds == InitWith({Ids}, TRUE) /\ [][NextHolds \/ NextBase]_vars

\* Every operation that keeps the capabilities, on one collection at a time.
SpecNoDrop == InitWith(EachCollection, FALSE) /\ [][NextHolds \/ NextBase \/ NextTimeline \/ AdvanceOracle]_vars

\* The timeline's holds on both collections, with history.
SpecTimeline == InitWith({Ids}, TRUE) /\ [][NextTimeline \/ AdvanceOracle]_vars

\* The entries of the timeline's holds, one collection per run: added, downgraded
\* and removed, with history.
SpecEntries == InitWith(EachCollection, TRUE) /\ [][NextTimeline \/ NextRemove \/ AdvanceOracle]_vars

\* Short-lived holds on both collections while capabilities are dropped, with
\* history.
SpecDropped == InitWith({Ids}, TRUE) /\ [][NextChannel \/ NextDrops]_vars

\* Short-lived holds on both collections until the coordinator shuts down, with
\* history.
SpecShutdown == InitWith({Ids}, TRUE) /\ [][NextChannel \/ Shutdown]_vars

\* The coordinator's loop keeps receiving from the drop channel: short-lived
\* holds on one collection at a time, one of them followed through the channel.
Drain == \E n \in 1..MaxHolds : ReleaseReadHolds(n)

SpecDrain == InitWith(EachCollection, TRUE) /\ [][NextChannel \/ NextWatch]_vars /\ WF_vars(Drain)

\* Holds acquired, released and downgraded while every capability is kept, one
\* collection at a time, with history.
SpecAdjust == InitWith(EachCollection, TRUE) /\ [][NextHolds \/ NextTimeline]_vars

\* Holds that outlive a dropped capability, with history.
SpecStale == InitWith(EachCollection, TRUE) /\ [][NextHolds \/ NextTimeline \/ NextDrops]_vars

\* Holds are acquired, destroyed and released while collections and instances
\* go away.
SpecMissing == InitWith({Ids}, TRUE) /\ [][NextChannel \/ NextEnv]_vars

\* The compute ids that the entries of a TimelineReadHolds value may name.
EntryComputeIds == ComputeIds \cup {"c2"}

\* The bundles an entry of a TimelineReadHolds value may have: not empty, and an
\* instance is a key only with ids.
EntryBundles == {[storage_ids |-> S, compute_ids |-> IF C = {} THEN EmptyMap ELSE [i \in Instances |-> C]] : S \in SUBSET StorageIds, C \in SUBSET EntryComputeIds} \ {EmptyBundle}

\* A TimelineReadHolds value with any entries.
InitEntries ==
    /\ scope = Ids
    /\ recording = TRUE
    /\ collections = [id \in Ids |-> FromElem(0)]
    /\ instances = Instances
    /\ read_policies = EmptyMap
    /\ timeline_context = EmptyMap
    /\ oracle_ts = 0
    /\ storage_read_capabilities = EmptyMap
    /\ compute_read_capabilities = EmptyMap
    /\ timeline_read_holds \in UNION {[D -> EntryBundles] : D \in SUBSET Frontiers}
    /\ live_read_holds = << >>
    /\ txn_read_holds = EmptyMap
    /\ dropped_read_holds = << >>
    /\ applied = ZeroApplied
    /\ last = NoOp
    /\ aborted = FALSE
    /\ dropped_read_holds_rx = TRUE
    /\ watched = 0

\* Ids are removed from a TimelineReadHolds value.
NextRemoveAny ==
    \/ \E id \in StorageIds : RemoveStorageId(id)
    \/ \E id \in EntryComputeIds : RemoveComputeId(InstanceOf(id), id)

\* remove_storage_id and remove_compute_id applied to any TimelineReadHolds value.
SpecRemove == InitEntries /\ [][NextRemoveAny]_vars

\* The TimelineReadHolds values over the collections of the model: entries are
\* not empty.
TimelineHolds == UNION {[D -> {b \in AllBundles : b # EmptyBundle}] : D \in SUBSET Frontiers}

\* A TimelineReadHolds value with any entries over the collections of the model.
InitExtend ==
    /\ scope = Ids
    /\ recording = TRUE
    /\ collections = [id \in Ids |-> FromElem(0)]
    /\ instances = Instances
    /\ read_policies = EmptyMap
    /\ timeline_context = EmptyMap
    /\ oracle_ts = 0
    /\ storage_read_capabilities = EmptyMap
    /\ compute_read_capabilities = EmptyMap
    /\ timeline_read_holds \in TimelineHolds
    /\ live_read_holds = << >>
    /\ txn_read_holds = EmptyMap
    /\ dropped_read_holds = << >>
    /\ applied = ZeroApplied
    /\ last = NoOp
    /\ aborted = FALSE
    /\ dropped_read_holds_rx = TRUE
    /\ watched = 0

\* A TimelineReadHolds value is extended with another, drained in any order.
NextExtend == \E other \in TimelineHolds : \E times \in Orders(DOMAIN other) : ExtendWithNewCall(other, times)

\* extend_with_new applied to any two TimelineReadHolds values.
SpecExtend == InitExtend /\ [][NextExtend]_vars

\* Collections are initialized and the timeline's holds are downgraded while
\* capabilities are dropped and collections and instances go away.
SpecGone == InitWith({Ids}, TRUE) /\ [][NextTimeline \/ NextDrops \/ NextLost]_vars

\* The timeline's holds made and advanced while callers acquire and release, base
\* policies change and the controllers compact; nothing is dropped.
SpecCompaction == InitWith(EachCollection, TRUE) /\ [][NextHolds \/ NextBase \/ NextTimeline]_vars

\* Every operation that changes a capability, on one collection at a time, while
\* the controllers compact and collections and instances go away.
SpecPushed == InitWith(EachCollection, TRUE) /\ [][NextHolds \/ NextBase \/ NextTimeline \/ NextLost]_vars

\* Collections are initialized, the timeline's holds are downgraded and
\* capabilities are dropped.
SpecDrops == InitWith({Ids}, TRUE) /\ [][NextTimeline \/ NextDrops \/ AdvanceOracle]_vars

\* Holds are acquired by callers and for transactions, destroyed and released.
SpecTxn == InitWith(EachCollection, TRUE) /\ [][NextChannel \/ NextTxn]_vars

-----------------------------------------------------------------------------
(* Outstanding holds.                                                      *)

\* The times at which a set of holds names id.
HoldTimes(holds, id) == {f \in DOMAIN holds : id \in BundleIds(holds[f])}

\* The times of every outstanding hold on id: the timeline's entries, the ReadHolds
\* values alive, and those in the drop channel whose release is not yet processed.
OutstandingTimes(id) == HoldTimes(timeline_read_holds, id) \cup UNION {HoldTimes(live_read_holds[n], id) : n \in 1..Len(live_read_holds)} \cup UNION {HoldTimes(dropped_read_holds[n], id) : n \in 1..Len(dropped_read_holds)}

\* C1: while the coordinator runs, for every collection with a ReadCapability the
\* policy last pushed to its controller yields, whatever the write frontier, a
\* frontier less-or-equal to the time of every outstanding hold on the collection
\* (timeline entries, live ReadHolds, holds in the drop channel), and the
\* collection's lower frontier, which the controller keeps within the pushed
\* policy, is less-or-equal to each such time as well; in every interleaving of
\* acquire, drop of a hold, release, initialize, update_read_holds, base-policy
\* updates and compaction.
C1_PushedPolicyWithinHolds ==
    ~aborted => \A id \in Ids : HasCapability(id) =>
        /\ id \in DOMAIN read_policies
        /\ \A f \in OutstandingTimes(id) :
            /\ Le(collections[id], f)
            /\ \A upper \in Uppers : Le(PolicyFrontier(read_policies[id], upper), f)

\* C1 witness: a collection whose base policy alone would let it compact to the
\* write frontier is held at time 1 by the timeline, by a live ReadHolds and by a
\* hold in the drop channel, and has been compacted up to exactly that time.
C1_Witness ==
    /\ ~aborted
    /\ \E id \in Ids :
        /\ HasCapability(id)
        /\ CapabilityOf(id).base_policy.kind = "LagWriteFrontier"
        /\ FromElem(1) \in HoldTimes(timeline_read_holds, id)
        /\ \E n \in 1..Len(live_read_holds) : FromElem(1) \in HoldTimes(live_read_holds[n], id)
        /\ \E n \in 1..Len(dropped_read_holds) : FromElem(1) \in HoldTimes(dropped_read_holds[n], id)
        /\ read_policies[id].valid_from = FromElem(1)
        /\ collections[id] = FromElem(1)
        /\ scope = {id}

-----------------------------------------------------------------------------
(* Acquire and release.                                                    *)

\* The ids a set of holds names.
HoldIds(holds) == UNION {BundleIds(holds[f]) : f \in DOMAIN holds}

\* The times whose net count of deltas is positive.
PositiveTimes(id) == {t \in Times : applied[id][t] > 0}

\* C2: under acquires and releases (and base-policy updates), the count a
\* ReadCapability stores at each time is the sum of the +1/-1 deltas applied at
\* that time, and the policy in force after every operation is the meet of the
\* base policy's floor and the least frontier of the times counted positive.
C2_CountsAreSumOfDeltas ==
    ~aborted => \A id \in Ids : HasCapability(id) =>
        /\ \A t \in Times : CapabilityOf(id).holds[t] = applied[id][t]
        /\ Policy(CapabilityOf(id)).valid_from = Minimal(PositiveTimes(id))
        /\ id \in DOMAIN read_policies
        /\ read_policies[id] = Policy(CapabilityOf(id))
        /\ \A upper \in Uppers : PolicyFrontier(read_policies[id], upper) = Meet(BaseFrontier(CapabilityOf(id).base_policy, upper), Minimal(PositiveTimes(id)))

\* C2 witness: a collection was held at times 0 and 1 and the hold at 0 has
\* just been released: the net count is 0 at time 0 and 1 at time 1.
C2_Witness ==
    /\ last.op = "release_read_holds"
    /\ Len(last.read_holdses) = 1
    /\ \E id \in Ids :
        /\ HasCapability(id)
        /\ FromElem(0) \in HoldTimes(last.read_holdses[1], id)
        /\ applied[id][0] = 0
        /\ applied[id][1] = 1
        /\ read_policies[id].valid_from = FromElem(1)

\* effective = join(time, current_lower(id))
Effective(time, id) == Join(FromElem(time), collections[id])

\* The ids of a bundle whose effective frontier is f, as a bundle.
GroupAt(time, id_bundle, f) == MkBundle({id \in id_bundle.storage_ids : Effective(time, id) = f}, {id \in BundleComputeIds(id_bundle) : Effective(time, id) = f})

\* The (effective_frontier, ids) groups of a bundle that differ from time.
LateGroups(time, id_bundle) == {<<f, GroupAt(time, id_bundle, f)>> : f \in {Effective(time, id) : id \in BundleIds(id_bundle)} \ {FromElem(time)}}

\* C3: a precise acquire on a bundle with an id whose effective frontier
\* join(time, lower) differs from time returns Err, and the error lists exactly
\* the groups whose effective frontier differs from time.
C3_PreciseErrListsLateGroups ==
    (last.op = "acquire_read_holds" /\ last.precise /\ last.result # "panic" /\ LateGroups(last.time, last.id_bundle) # {}) =>
        /\ last.result = "Err"
        /\ last.too_late = LateGroups(last.time, last.id_bundle)

\* C4: a non-precise acquire on existing collections succeeds; the hold it
\* returns names every id of the bundle at effective = join(time, lower) and
\* nowhere else, the effective frontier dominates both the requested time and the
\* lower frontier, and the id's capability gains exactly +1 at the effective
\* frontier and nothing at any other time.
C4_NonPreciseAcquire ==
    [][(last'.op = "acquire_read_holds" /\ ~last'.precise /\ \A id \in BundleIds(last'.id_bundle) : CollectionExists(id)) =>
        /\ last'.result = "Ok"
        /\ live_read_holds' = Append(live_read_holds, last'.holds)
        /\ HoldIds(last'.holds) = BundleIds(last'.id_bundle)
        /\ \A id \in BundleIds(last'.id_bundle) :
            /\ HoldTimes(last'.holds, id) = {Effective(last'.time, id)}
            /\ Le(FromElem(last'.time), Effective(last'.time, id))
            /\ Le(collections[id], Effective(last'.time, id))
            /\ HasCapability(id)'
            /\ \A t \in Times : CapabilityOf(id)'.holds[t] = (IF HasCapability(id) THEN CapabilityOf(id).holds[t] ELSE 0) + (IF t \in Effective(last'.time, id) THEN 1 ELSE 0)]_vars

\* C4 witness: a non-precise acquire at time 0 on a collection whose lower
\* frontier is 1 returned a hold at 1.
C4_Witness ==
    /\ last.op = "acquire_read_holds"
    /\ ~last.precise
    /\ last.result = "Ok"
    /\ last.time = 0
    /\ \E id \in BundleIds(last.id_bundle) :
        /\ collections[id] = FromElem(1)
        /\ HoldTimes(last.holds, id) = {FromElem(1)}
        /\ CapabilityOf(id).holds[1] >= 1

\* C5: whenever a precise acquire returns Ok, every entry of the returned hold
\* is keyed by the single-element frontier {time}, whatever the lower frontiers
\* of the collections, the empty frontier of a closed collection included.
C5_PreciseOkIsAtTime ==
    (last.op = "acquire_read_holds" /\ last.precise /\ last.result = "Ok") => DOMAIN last.holds = {FromElem(last.time)}

\* C6: holds are counted. When the release of one hold is processed for a
\* collection counted twice at the hold's time, the count becomes 1 and the
\* policy, the one pushed included, still holds the collection at that time;
\* when the collection is counted once there and nowhere else, the count
\* becomes 0 and the policy is the floor of the base policy alone.
C6_HoldsAreCounted ==
    [][(last'.op = "release_read_holds" /\ Len(last'.read_holdses) = 1) =>
        \A id \in HoldIds(last'.read_holdses[1]) : HasCapability(id) =>
            \A f \in HoldTimes(last'.read_holdses[1], id) : \A t \in f :
                /\ CapabilityOf(id).holds[t] = 2 =>
                    /\ CapabilityOf(id)'.holds[t] = 1
                    /\ Policy(CapabilityOf(id)').valid_from # {}
                    /\ Le(Policy(CapabilityOf(id)').valid_from, f)
                    /\ \A upper \in Uppers : Le(PolicyFrontier(read_policies'[id], upper), f)
                /\ (CapabilityOf(id).holds[t] = 1 /\ \A u \in Times \ {t} : CapabilityOf(id).holds[u] = 0) =>
                    /\ CapabilityOf(id)'.holds[t] = 0
                    /\ Policy(CapabilityOf(id)').valid_from = {}
                    /\ \A upper \in Uppers : PolicyFrontier(read_policies'[id], upper) = BaseFrontier(CapabilityOf(id)'.base_policy, upper)]_vars

\* C6 witness: one of two holds on a collection at the same time has been
\* released; the other is outstanding, the count is 1, and the pushed policy
\* still holds the collection there although its base policy would let it go.
C6_Witness ==
    /\ last.op = "release_read_holds"
    /\ Len(last.read_holdses) = 1
    /\ \E id \in Ids, t \in Times :
        /\ FromElem(t) \in HoldTimes(last.read_holdses[1], id)
        /\ FromElem(t) \in OutstandingTimes(id)
        /\ HasCapability(id)
        /\ CapabilityOf(id).holds[t] = 1
        /\ CapabilityOf(id).base_policy.kind = "LagWriteFrontier"
        /\ read_policies[id].valid_from = FromElem(t)

\* The capability an acquire found for id.
BeforeCapability(id) == IF id \in StorageIds THEN last.before.storage_read_capabilities[id] ELSE last.before.compute_read_capabilities[id]

HadCapability(id) == id \in (DOMAIN last.before.storage_read_capabilities) \cup (DOMAIN last.before.compute_read_capabilities)

\* C7: after an acquire, the drop of the returned hold and the release of that
\* hold, with no other operation in between, every id of the bundle that had a
\* ReadCapability has the counts and the policy() it had before the acquire, and
\* the policy the release pushed is that policy.
C7_AcquireReleaseRoundTrip ==
    (last.op = "release_read_holds" /\ last.round_trip) =>
        \A id \in HoldIds(last.read_holdses[1]) : HadCapability(id) =>
            /\ HasCapability(id)
            /\ CapabilityOf(id).holds = BeforeCapability(id).holds
            /\ Policy(CapabilityOf(id)) = Policy(BeforeCapability(id))
            /\ \E n \in 1..Len(last.calls) : \E k \in 1..Len(last.calls[n].policies) : last.calls[n].policies[k] = <<id, Policy(BeforeCapability(id))>>
            /\ read_policies[id] = Policy(BeforeCapability(id))

\* C7 witness: a collection held at time 1 under a base policy that lags the
\* write frontier was acquired at time 0 and released at once; it is held at
\* time 1 again.
C7_Witness ==
    /\ last.op = "release_read_holds"
    /\ last.round_trip
    /\ \E id \in HoldIds(last.read_holdses[1]) :
        /\ HadCapability(id)
        /\ FromElem(0) \in HoldTimes(last.read_holdses[1], id)
        /\ BeforeCapability(id).holds[1] = 1
        /\ BeforeCapability(id).base_policy.kind = "LagWriteFrontier"
        /\ read_policies[id].valid_from = FromElem(1)

-----------------------------------------------------------------------------
(* update_read_holds.                                                      *)

\* The entries of `old` that update_read_holds moves: join(old_time, new_time)
\* is not old_time.
Moved(old, new_time) == {f \in DOMAIN old : Join(f, new_time) # f}

\* The net change update_read_holds owes id's count at time t: per moved entry
\* naming id, +1 at the joined time and -1 at the old time.
Owed(old, new_time, id, t) == Cardinality({f \in Moved(old, new_time) : id \in BundleIds(old[f]) /\ t \in Join(f, new_time)}) - Cardinality({f \in Moved(old, new_time) : id \in BundleIds(old[f]) /\ t \in f})

\* Some set_read_policy call of the sequence carries the policy for id.
Pushes(calls, id, policy) == \E n \in 1..Len(calls) : \E k \in 1..Len(calls[n].policies) : calls[n].policies[k] = <<id, policy>>

\* Some set_read_policy call of the sequence names id.
Names(calls, id) == \E n \in 1..Len(calls) : \E k \in 1..Len(calls[n].policies) : calls[n].policies[k][1] = id

\* C8: update_read_holds(holds, new_time) returns holds in which every id is
\* held at join(old time, new_time) for each of its old times and nowhere else,
\* with id_bundle() unchanged; every id's capability changes by +1 at the new
\* and -1 at the old time of each moved entry naming it, and for every id of a
\* moved entry the recomputed policy() is pushed to its controller.
C8_UpdateMovesEveryHold ==
    [][(last'.op = "update_read_holds" /\ last'.result = "Ok") =>
        /\ last'.read_holdses = <<timeline_read_holds>>
        /\ timeline_read_holds' = last'.holds
        /\ IdBundle(last'.holds) = IdBundle(timeline_read_holds)
        /\ \A id \in HoldIds(timeline_read_holds) :
            /\ HoldTimes(last'.holds, id) = {Join(f, FromElem(last'.time)) : f \in HoldTimes(timeline_read_holds, id)}
            /\ HasCapability(id) /\ HasCapability(id)'
            /\ \A t \in Times : CapabilityOf(id)'.holds[t] = CapabilityOf(id).holds[t] + Owed(timeline_read_holds, FromElem(last'.time), id, t)
            /\ (HoldTimes(timeline_read_holds, id) \cap Moved(timeline_read_holds, FromElem(last'.time)) # {}) =>
                /\ Pushes(last'.calls, id, Policy(CapabilityOf(id)'))
                /\ read_policies'[id] = Policy(CapabilityOf(id)')]_vars

\* C8 witness: the timeline's hold on a collection was downgraded from time 0
\* to time 1: the count left time 0 and the pushed policy holds it at time 1.
C8_Witness ==
    /\ last.op = "update_read_holds"
    /\ last.result = "Ok"
    /\ last.time = 1
    /\ \E id \in Ids :
        /\ HoldTimes(last.read_holdses[1], id) = {FromElem(0)}
        /\ HoldTimes(timeline_read_holds, id) = {FromElem(1)}
        /\ CapabilityOf(id).holds[0] = 0
        /\ CapabilityOf(id).holds[1] = 1
        /\ read_policies[id].valid_from = FromElem(1)

\* The collections update_read_holds finds too far ahead: named by a moved entry
\* whose joined time the collection's live lower frontier is not less-or-equal to.
Late(old, new_time) == {id \in Ids : CollectionExists(id) /\ \E f \in Moved(old, new_time) : id \in BundleIds(old[f]) /\ ~Le(collections[id], Join(f, new_time))}

C10_UnchangedEntriesUntouched ==
    [][(last'.op = "update_read_holds") =>
        /\ (Moved(timeline_read_holds, FromElem(last'.time)) = {}) => (last'.result = "Ok" /\ ~aborted' /\ last'.holds = timeline_read_holds)
        /\ last'.result = "Ok" => \A f \in (DOMAIN timeline_read_holds) \ Moved(timeline_read_holds, FromElem(last'.time)) : f \in DOMAIN last'.holds /\ BundleIds(timeline_read_holds[f]) \subseteq BundleIds(last'.holds[f])
        /\ \A id \in HoldIds(timeline_read_holds) : (HoldTimes(timeline_read_holds, id) \cap Moved(timeline_read_holds, FromElem(last'.time)) = {}) =>
            /\ HasCapability(id)' = HasCapability(id)
            /\ HasCapability(id) => CapabilityOf(id)' = CapabilityOf(id)
            /\ ~Names(last'.calls, id)
            /\ (id \in DOMAIN read_policies') = (id \in DOMAIN read_policies)
            /\ id \in DOMAIN read_policies => read_policies'[id] = read_policies[id]]_vars

\* C10 witness: update_read_holds returned normally and left in place an entry
\* naming a collection whose lower frontier is not less-or-equal to the entry's
\* time: the assertion, had it been evaluated, would have failed.
C10_Witness ==
    /\ last.op = "update_read_holds"
    /\ last.result = "Ok"
    /\ ~aborted
    /\ \E id \in Ids : \E f \in HoldTimes(last.read_holdses[1], id) :
        /\ Join(f, FromElem(last.time)) = f
        /\ f \in HoldTimes(timeline_read_holds, id)
        /\ CollectionExists(id)
        /\ ~Le(collections[id], f)

-----------------------------------------------------------------------------
(* The entries of a TimelineReadHolds.                                     *)

\* The ids extend_with_new is given under a time while self already has them
\* under another time.
ElsewhereHeld(self, other) == {id \in Ids : \E f \in DOMAIN other : id \in BundleIds(other[f]) /\ \E g \in (DOMAIN self) \ {f} : id \in BundleIds(self[g])}

\* C11: extend_with_new(other) fails fatally whenever some id of other is
\* already present in self at a time different from the time under which other
\* holds it.
C11_ExtendFailsOnOtherTime ==
    [][(last'.op = "initialize_read_policies" /\ ElsewhereHeld(timeline_read_holds, last'.holds) # {}) => last'.result = "panic"]_vars

\* C12: while the coordinator runs, each collection id appears in at most one
\* time entry of the timeline's read holds.
C12_OneEntryPerId ==
    ~aborted => \A id \in Ids : Cardinality(HoldTimes(timeline_read_holds, id)) <= 1

-----------------------------------------------------------------------------
(* Release and the drop channel.                                           *)

\* C13: release_read_holds never fails; an id of the released holds that has
\* no ReadCapability (dropped by drop_storage_read_policy or
\* drop_compute_read_policy) is skipped: no capability is created for it, no
\* set_read_policy call names it and its controller policy stays; every other
\* id of the same release is decremented once per released hold naming it at
\* each time, and its recomputed policy is pushed.
C13_ReleaseSkipsDroppedIds ==
    [][(last'.op = "release_read_holds") =>
        /\ last'.result = "Ok"
        /\ ~aborted'
        /\ \A id \in Ids : ~HasCapability(id) =>
            /\ ~HasCapability(id)'
            /\ ~Names(last'.calls, id)
            /\ (id \in DOMAIN read_policies') = (id \in DOMAIN read_policies)
            /\ id \in DOMAIN read_policies => read_policies'[id] = read_policies[id]
        /\ \A id \in Ids : (HasCapability(id) /\ \E n \in 1..Len(last'.read_holdses) : id \in HoldIds(last'.read_holdses[n])) =>
            /\ HasCapability(id)'
            /\ \A t \in Times : CapabilityOf(id)'.holds[t] = CapabilityOf(id).holds[t] - Naming(last'.read_holdses, id, t)
            /\ CapabilityOf(id)'.base_policy = CapabilityOf(id).base_policy
            /\ Pushes(last'.calls, id, Policy(CapabilityOf(id)'))
            /\ read_policies'[id] = Policy(CapabilityOf(id)')]_vars

\* C13 witness: a hold on both collections was released after the storage
\* collection's capability had been dropped: the compute collection's policy was
\* pushed, nothing was pushed for the storage collection.
C13_Witness ==
    /\ last.op = "release_read_holds"
    /\ \E n \in 1..Len(last.read_holdses) : HoldIds(last.read_holdses[n]) = Ids
    /\ ~HasCapability("s1")
    /\ HasCapability("c1")
    /\ Names(last.calls, "c1")
    /\ ~Names(last.calls, "s1")

\* The holds that wait in the drop channel are still counted: every id they name
\* whose capability exists has a positive count at the hold's time, and the
\* policy last pushed for it does not pass that time.
ChannelStillHeld == \A n \in 1..Len(dropped_read_holds), id \in Ids : \A f \in HoldTimes(dropped_read_holds[n], id) : \A t \in f :
    HasCapability(id) => (CapabilityOf(id).holds[t] >= 1 /\ Le(read_policies[id].valid_from, FromElem(t)))

\* C14: destroying a ReadHolds value changes no coordinator state: while the
\* receiver exists the destructor only appends the hold's inner state to the drop
\* channel, which never blocks (it is enabled for every live hold); capabilities,
\* counts, the pushed policies and the timeline's holds are the same after
\* it, and as long as a hold waits in the channel its ids stay counted and the
\* pushed policy stays at or below its time.
C14_DropOnlyEnqueues ==
    /\ [](~aborted => (ChannelStillHeld /\ \A i \in 1..Len(live_read_holds) : ENABLED DropReadHolds(i)))
    /\ [][(last'.op = "drop" /\ dropped_read_holds_rx) =>
            /\ dropped_read_holds' = Append(dropped_read_holds, last'.holds)
            /\ last'.res = "Ok"
            /\ UNCHANGED <<storage_read_capabilities, compute_read_capabilities, read_policies, timeline_read_holds, collections, instances, applied, aborted>>]_vars

\* C14 witness: a ReadHolds value was just destroyed; it was the only hold of a
\* collection at time t, its inner state is the newest message of the channel,
\* the count at t is still 1 and the pushed policy is still valid from t.
C14_Witness ==
    /\ last.op = "drop"
    /\ last.res = "Ok"
    /\ ~aborted
    /\ Len(dropped_read_holds) >= 1
    /\ dropped_read_holds[Len(dropped_read_holds)] = last.holds
    /\ \E id \in Ids, t \in Times :
        /\ FromElem(t) \in HoldTimes(last.holds, id)
        /\ HasCapability(id)
        /\ CapabilityOf(id).holds[t] = 1
        /\ read_policies[id].valid_from = FromElem(t)

-----------------------------------------------------------------------------
(* The drain loop.                                                         *)

\* No hold a caller owns and no timeline entry names id.
Quiet(id) == HasCapability(id) /\ HoldTimes(timeline_read_holds, id) = {} /\ \A n \in 1..Len(live_read_holds) : HoldTimes(live_read_holds[n], id) = {}

\* The capability of id counts no hold and the policy pushed for it is its base
\* policy alone.
AtBaseFloor(id) == HasCapability(id) /\ CapabilityOf(id).holds = ZeroHolds /\ read_policies[id] = [valid_from |-> {}, base |-> CapabilityOf(id).base_policy]

\* C15: while the coordinator keeps receiving from the drop channel (weak
\* fairness of the drain step), a hold that waits in the channel is eventually
\* received, and receiving it subtracts one, for every id it names that has a
\* capability, at each of its times; and a collection that no live hold and no
\* timeline entry names eventually has no counted hold and its base policy
\* alone pushed, unless a new hold on it is acquired first.
C15_DroppedEventuallyReleased ==
    /\ (watched > 0) ~> (watched = 0)
    /\ \A id \in Ids : Quiet(id) ~> (AtBaseFloor(id) \/ ~Quiet(id))
    /\ [][(watched > 0 /\ watched' = 0) => \A id \in Ids, t \in Times :
            HasCapability(id) => applied'[id][t] <= applied[id][t] - Naming(<<dropped_read_holds[watched]>>, id, t)]_vars

\* C15 witness: the release that just ran received the hold that was followed
\* through the channel, and a collection it named is at its base floor.
C15_Witness ==
    /\ last.op = "release_read_holds"
    /\ last.followed
    /\ watched = 0
    /\ \E id \in Ids, n \in 1..Len(last.read_holdses) :
        /\ HoldTimes(last.read_holdses[n], id) # {}
        /\ {} \notin HoldTimes(last.read_holdses[n], id)
        /\ Quiet(id)
        /\ AtBaseFloor(id)

-----------------------------------------------------------------------------
(* The receiver is gone.                                                   *)

\* The ids the hold names are counted at its times, and the policy last pushed
\* for them does not pass those times.
StillHeld(holds) == \A id \in Ids : \A f \in HoldTimes(holds, id) : \A t \in f :
    HasCapability(id) => (CapabilityOf(id).holds[t] >= 1 /\ Le(read_policies[id].valid_from, FromElem(t)))

\* C16: a ReadHolds value destroyed after the receiver of the drop channel is
\* gone: the send fails and that is all, the destructor neither panics nor
\* blocks (it is enabled for every live hold), the inner state reaches no
\* channel, and the hold is leaked: its ids stay counted at its time, the pushed
\* policy stays at or below it, and no later step changes a count or a pushed
\* policy.
C16_FailedSendLeaks ==
    /\ [](~dropped_read_holds_rx => \A i \in 1..Len(live_read_holds) : ENABLED DropReadHolds(i))
    /\ []((last.op = "drop" /\ last.res = "Err") => StillHeld(last.holds))
    /\ [][~dropped_read_holds_rx => UNCHANGED <<storage_read_capabilities, compute_read_capabilities, read_policies, dropped_read_holds>>]_vars
    /\ [][(last'.op = "drop" /\ ~dropped_read_holds_rx) => (last'.res = "Err" /\ last'.panic = "" /\ last'.result = "Ok")]_vars

\* C16 witness: the coordinator has shut down, the last ReadHolds value was then
\* destroyed and its send failed; the collection it named at time t is still
\* counted there, with the pushed policy valid from t, and nothing is left in the
\* channel that could release it.
C16_Witness ==
    /\ ~dropped_read_holds_rx
    /\ last.op = "drop"
    /\ last.res = "Err"
    /\ live_read_holds = << >>
    /\ dropped_read_holds = << >>
    /\ \E id \in Ids, t \in Times :
        /\ FromElem(t) \in HoldTimes(last.holds, id)
        /\ CapabilityOf(id).holds[t] = 1
        /\ read_policies[id].valid_from = FromElem(t)

-----------------------------------------------------------------------------
(* The order of acquires and releases.                                     *)

\* The capabilities and the controllers' policies, as a value.
Committed == [storage_read_capabilities |-> storage_read_capabilities, compute_read_capabilities |-> compute_read_capabilities, read_policies |-> read_policies]

\* What release_read_holds(read_holdses) makes of a committed state.
Released(st, read_holdses) ==
    LET s == ReleaseStorage(st.storage_read_capabilities, StoragePairsOf(read_holdses), << >>)
        c == ReleaseCompute(st.compute_read_capabilities, ComputeTriplesOf(read_holdses), EmptyMap)
        calls == <<Call("storage", s.policy_changes)>> \o ReleaseCalls(c.policy_changes_per_instance, SetToSeq(DOMAIN c.policy_changes_per_instance))
    IN  [storage_read_capabilities |-> s.caps, compute_read_capabilities |-> c.caps, read_policies |-> SetReadPolicies(st.read_policies, calls, << >>).read_policies]

\* What a non-precise acquire_read_holds(time, id_bundle) makes of a committed state.
Acquired(st, time, id_bundle) ==
    LET read_holds == NewReadHolds(time, id_bundle)
        s == AcquireStorage(st.storage_read_capabilities, SetToSeq(HoldsStorageIds(read_holds)), << >>)
        c == AcquireInstances(st.compute_read_capabilities, read_holds, SetToSeq(DOMAIN HoldsComputeIds(read_holds)), << >>)
        calls == <<Call("storage", s.policy_changes)>> \o c.calls
    IN  [storage_read_capabilities |-> s.caps, compute_read_capabilities |-> c.caps, read_policies |-> SetReadPolicies(st.read_policies, calls, << >>).read_policies]

RECURSIVE ReleasedEach(_, _)
\* One release_read_holds call per hold, in the order given.
ReleasedEach(st, read_holdses) == IF read_holdses = << >> THEN st ELSE ReleasedEach(Released(st, <<Head(read_holdses)>>), Tail(read_holdses))

\* The holds of the drop channel in the order o.
Reordered(o) == [k \in 1..Len(dropped_read_holds) |-> dropped_read_holds[o[k]]]

\* C17: the capabilities (counts and policy()) and the policies installed at the
\* controllers come out the same whatever the order in which pending adjustments
\* are processed: the holds of the drop channel released in any order, in one
\* call or one call each, and an acquire processed before or after the release
\* of the channel.
C17_OrderIndependent ==
    ~aborted =>
        /\ \A o \in Orders(1..Len(dropped_read_holds)) :
            /\ Released(Committed, Reordered(o)) = Released(Committed, dropped_read_holds)
            /\ ReleasedEach(Committed, Reordered(o)) = Released(Committed, dropped_read_holds)
        /\ \A time \in Times, id_bundle \in Bundles :
            Released(Acquired(Committed, time, id_bundle), dropped_read_holds) = Acquired(Released(Committed, dropped_read_holds), time, id_bundle)

\* C17 witness: two holds on the same collection at different times wait in the
\* drop channel, and releasing them changes the policy installed for it.
C17_Witness ==
    /\ ~aborted
    /\ Len(dropped_read_holds) = 2
    /\ \E id \in Ids :
        /\ HoldTimes(dropped_read_holds[1], id) # {}
        /\ HoldTimes(dropped_read_holds[2], id) # {}
        /\ HoldTimes(dropped_read_holds[1], id) # HoldTimes(dropped_read_holds[2], id)
        /\ Released(Committed, dropped_read_holds).read_policies[id] # read_policies[id]
        /\ Released(Committed, <<dropped_read_holds[1]>>).read_policies[id] # Released(Committed, <<dropped_read_holds[2]>>).read_policies[id]

-----------------------------------------------------------------------------
(* policy() over time.                                                     *)

\* The operations that adjust the holds of capabilities that exist.
Adjusts(ran) == (ran.op = "acquire_read_holds" /\ ran.result = "Ok") \/ (ran.op = "update_read_holds" /\ ran.result = "Ok") \/ ran.op = "release_read_holds"

\* The step keeps id's capability and its base policy.
SameBase(id) == HasCapability(id) /\ HasCapability(id)' /\ CapabilityOf(id)'.base_policy = CapabilityOf(id).base_policy

\* policy() of id is, for every write frontier, at or beyond what it was.
NotBackward(id) == \A upper \in Uppers : Le(PolicyFrontier(Policy(CapabilityOf(id)), upper), PolicyFrontier(Policy(CapabilityOf(id)'), upper))

\* C18 as stated: with the base policy fixed, no acquire, update or release moves
\* policy() of a collection backward, and every hold acquire_read_holds installs
\* is at or beyond the collection's current policy().
C18_PolicyNeverBackward ==
    [][Adjusts(last') => \A id \in Ids : SameBase(id) =>
            /\ NotBackward(id)
            /\ last'.op = "acquire_read_holds" => \A f \in HoldTimes(last'.holds, id) : \A upper \in Uppers : Le(PolicyFrontier(Policy(CapabilityOf(id)), upper), f)]_vars

\* C18 amended: with the base policy fixed, no update and no release moves
\* policy() of a collection backward; acquire_read_holds installs every hold at
\* or beyond the collection's current lower frontier (not its policy()), so an
\* acquire may move policy() backward, but never below the meet of its previous
\* value and the lower frontier.
C18_Amended ==
    [][Adjusts(last') => \A id \in Ids : SameBase(id) =>
            /\ last'.op # "acquire_read_holds" => NotBackward(id)
            /\ last'.op = "acquire_read_holds" =>
                /\ \A f \in HoldTimes(last'.holds, id) : Le(collections[id], f)
                /\ \A upper \in Uppers : Le(Meet(PolicyFrontier(Policy(CapabilityOf(id)), upper), collections[id]), PolicyFrontier(Policy(CapabilityOf(id)'), upper))]_vars

\* C18 witness: an acquire that returned a hold on a collection whose
\* capability existed, at the collection's lower frontier, and policy() of the
\* collection is, for some write frontier, behind what it was before the call.
C18_Witness ==
    /\ last.op = "acquire_read_holds"
    /\ last.result = "Ok"
    /\ \E id \in BundleIds(last.id_bundle) :
        /\ HadCapability(id)
        /\ HasCapability(id)
        /\ BeforeCapability(id).base_policy = CapabilityOf(id).base_policy
        /\ collections[id] \in HoldTimes(last.holds, id)
        /\ \E upper \in Uppers : ~Le(PolicyFrontier(Policy(BeforeCapability(id)), upper), PolicyFrontier(Policy(CapabilityOf(id)), upper))

-----------------------------------------------------------------------------
(* ensure_storage_capability, ensure_compute_capability.                   *)

\* The capability table of id's kind, and what ensure makes of it.
CapabilitiesOf(id) == IF id \in StorageIds THEN storage_read_capabilities ELSE compute_read_capabilities

Ensured(id, compaction_window) == IF id \in StorageIds THEN EnsureStorageCapability(storage_read_capabilities, id, compaction_window) ELSE EnsureComputeCapability(compute_read_capabilities, InstanceOf(id), id, compaction_window)

\* The table `after` is `before` but for the key id.
OnlyAt(before, after, id) == DOMAIN after = (DOMAIN before) \cup {id} /\ \A other \in (DOMAIN before) \ {id} : after[other] = before[other]

\* C19: in every state, for every existing collection and every window or none:
\* without a capability, ensure creates one with no hold counted and the base
\* policy of the window, or ValidFrom(the collection's lower frontier) when no
\* window is given; with a capability and a window, only base_policy is
\* overwritten and the counts stay; with a capability and no window nothing
\* changes.  No other capability is touched.  The operations that call it show
\* the same: acquire (no window) keeps an existing base policy, initialize
\* (a window) sets it, and neither lowers a count.
C19_EnsureCapability ==
    /\ [](~aborted => \A id \in DOMAIN collections, w \in CompactionWindows \cup {NoWindow} :
            LET before == CapabilitiesOf(id)
                after == Ensured(id, w)
            IN  /\ OnlyAt(before, after, id)
                /\ id \notin DOMAIN before => after[id].holds = ZeroHolds
                /\ (id \notin DOMAIN before /\ w = NoWindow) => after[id].base_policy = ValidFrom(collections[id])
                /\ (id \notin DOMAIN before /\ w # NoWindow) => after[id].base_policy = WindowPolicy(w)
                /\ (id \in DOMAIN before /\ w # NoWindow) => (after[id].holds = before[id].holds /\ after[id].base_policy = WindowPolicy(w))
                /\ (id \in DOMAIN before /\ w = NoWindow) => after = before)
    /\ [][(last'.result = "Ok" /\ last'.op \in {"acquire_read_holds", "initialize_read_policies"}) => \A id \in BundleIds(last'.id_bundle) :
            /\ HasCapability(id)'
            /\ CapabilityOf(id)'.base_policy = (IF last'.window # NoWindow THEN WindowPolicy(last'.window) ELSE IF HasCapability(id) THEN CapabilityOf(id).base_policy ELSE ValidFrom(collections[id]))
            /\ \A t \in Times : CapabilityOf(id)'.holds[t] >= (IF HasCapability(id) THEN CapabilityOf(id).holds[t] ELSE 0)]_vars

\* C19 witness: initialize_read_policies with a window ran on a collection that
\* already had a capability with a hold counted: the hold is still counted
\* (with the one initialize added the count is 2) and the base policy is the
\* window's.
C19_Witness ==
    /\ last.op = "initialize_read_policies"
    /\ last.result = "Ok"
    /\ last.window = "Duration"
    /\ \E id \in BundleIds(last.id_bundle), t \in Times :
        /\ CapabilityOf(id).holds[t] >= 2
        /\ CapabilityOf(id).base_policy = WindowPolicy("Duration")
        /\ Ensured(id, "DisableCompaction")[id].holds = CapabilityOf(id).holds
        /\ Ensured(id, "DisableCompaction")[id].base_policy # CapabilityOf(id).base_policy

-----------------------------------------------------------------------------
(* initialize_read_policies.                                               *)

\* The ids of the bundle the catalog anchors to the timeline.
Anchored(ran, contexts) == {id \in BundleIds(ran.id_bundle) : contexts[id] = "TimelineDependent"}

\* The policies the set_read_policy calls of the sequence carry for id.
PushedFor(calls, id) == UNION {{calls[n].policies[k][2] : k \in {j \in 1..Len(calls[n].policies) : calls[n].policies[j][1] = id}} : n \in 1..Len(calls)}

\* C20: after initialize_read_policies(bundle, window) returned, for every id of
\* the bundle that is anchored to the timeline, with f = join(read_ts, lower(id)):
\* the new holds and the timeline's holds name id under f (and the new holds
\* under no other time), id has a capability whose base policy is the window's,
\* its counts are what they were (zero without a capability) plus exactly one at
\* the times of f, and the policy handed to its controller, which the
\* controller installed, is policy() of the capability after the +1.
C20_InitializeAnchored ==
    [][(last'.op = "initialize_read_policies" /\ last'.result = "Ok") => \A id \in Anchored(last', timeline_context') :
            LET f == Join(FromElem(oracle_ts), collections[id])
            IN  /\ HoldTimes(last'.holds, id) = {f}
                /\ f \in HoldTimes(timeline_read_holds', id)
                /\ HasCapability(id)'
                /\ CapabilityOf(id)'.base_policy = WindowPolicy(last'.window)
                /\ \A t \in Times : CapabilityOf(id)'.holds[t] = (IF HasCapability(id) THEN CapabilityOf(id).holds[t] ELSE 0) + (IF t \in f THEN 1 ELSE 0)
                /\ PushedFor(last'.calls, id) = {Policy(CapabilityOf(id)')}
                /\ read_policies'[id] = Policy(CapabilityOf(id)')]_vars

\* C20 witness: initialize_read_policies returned for a bundle of two anchored
\* collections whose lower frontiers differ: each is held by the timeline and
\* counted once at its own frontier, one of them beyond the oracle's read_ts, and
\* the installed policies are valid from those frontiers.
C20_Witness ==
    /\ last.op = "initialize_read_policies"
    /\ last.result = "Ok"
    /\ Cardinality(DOMAIN last.holds) = 2
    /\ \A id \in Ids :
        /\ id \in BundleIds(last.id_bundle)
        /\ timeline_context[id] = "TimelineDependent"
        /\ \E t \in Times :
            /\ HoldTimes(timeline_read_holds, id) = {FromElem(t)}
            /\ HoldTimes(last.holds, id) = {FromElem(t)}
            /\ FromElem(t) = Join(FromElem(oracle_ts), collections[id])
            /\ CapabilityOf(id).holds = UpdateIter(ZeroHolds, FromElem(t), 1)
            /\ read_policies[id].valid_from = FromElem(t)

\* C21: after initialize_read_policies(bundle, window) returned, for every id of
\* the bundle that is not anchored to a timeline: the new holds do not name it
\* and the timeline's holds name it exactly where they did (they are unchanged
\* when no id of the bundle is anchored), no count of its capability changed
\* (all are zero for a new capability), its base policy is the window's, and the
\* one policy pushed and installed for it is policy() of that capability: the
\* base policy and the holds that were already counted.
C21_InitializeUnanchored ==
    [][(last'.op = "initialize_read_policies" /\ last'.result = "Ok") =>
            /\ Anchored(last', timeline_context') = {} => timeline_read_holds' = timeline_read_holds
            /\ \A id \in BundleIds(last'.id_bundle) \ Anchored(last', timeline_context') :
                /\ HoldTimes(last'.holds, id) = {}
                /\ HoldTimes(timeline_read_holds', id) = HoldTimes(timeline_read_holds, id)
                /\ HasCapability(id)'
                /\ CapabilityOf(id)'.base_policy = WindowPolicy(last'.window)
                /\ CapabilityOf(id)'.holds = (IF HasCapability(id) THEN CapabilityOf(id).holds ELSE ZeroHolds)
                /\ applied'[id] = applied[id]
                /\ PushedFor(last'.calls, id) = {[valid_from |-> HoldsFrontier(CapabilityOf(id)'.holds), base |-> WindowPolicy(last'.window)]}
                /\ read_policies'[id] = Policy(CapabilityOf(id)')]_vars

\* C21 witness: initialize_read_policies with a duration window returned for a
\* collection that is not anchored and on which a short-lived hold was counted:
\* the timeline holds nothing, the hold is still the only one counted, and the
\* installed policy is valid from the hold's time with the window's lag as base.
C21_Witness ==
    /\ last.op = "initialize_read_policies"
    /\ last.result = "Ok"
    /\ last.window = "Duration"
    /\ timeline_read_holds = EmptyMap
    /\ \E id \in BundleIds(last.id_bundle), t \in Times :
        /\ timeline_context[id] = "TimestampIndependent"
        /\ CapabilityOf(id).holds = UpdateIter(ZeroHolds, FromElem(t), 1)
        /\ applied[id] = CapabilityOf(id).holds
        /\ read_policies[id] = [valid_from |-> FromElem(t), base |-> LagWritesBy(WindowLag)]

-----------------------------------------------------------------------------
(* The set_read_policy calls of one operation.                             *)

\* The calls of the sequence made to the target (the storage controller or a
\* compute instance).
CallsTo(calls, target) == {n \in 1..Len(calls) : calls[n].target = target}

\* The places of the calls at which a policy for id is handed over.
PushesOf(calls, id) == {p \in (1..Len(calls)) \X (1..Cardinality(Ids)) : p[2] <= Len(calls[p[1]].policies) /\ calls[p[1]].policies[p[2]][1] = id}

\* The calls are one to the storage controller and one to each compute instance
\* of the bundle, and hand over one policy for each id of the bundle, to its
\* own controller, and for no other id.
OneCallEach(calls, id_bundle) ==
    /\ Cardinality(CallsTo(calls, "storage")) = 1
    /\ \A instance \in Instances : Cardinality(CallsTo(calls, instance)) = (IF \E id \in BundleComputeIds(id_bundle) : InstanceOf(id) = instance THEN 1 ELSE 0)
    /\ \A id \in Ids : Cardinality(PushesOf(calls, id)) = (IF id \in BundleIds(id_bundle) THEN 1 ELSE 0)
    /\ \A id \in Ids : \A p \in PushesOf(calls, id) : calls[p[1]].target = (IF id \in StorageIds THEN "storage" ELSE InstanceOf(id))

\* C22: one initialize_read_policies call that returned made exactly one
\* set_read_policy call to the storage controller and one to each compute
\* instance with ids in the bundle, handing over one policy per id of the bundle;
\* each policy is policy() of the id's capability as the call left it, that is
\* after every capability of the bundle was created and adjusted, and it is the
\* policy the controller has installed.
C22_InitializePushesOnce ==
    [][(last'.op = "initialize_read_policies" /\ last'.result = "Ok") =>
            /\ OneCallEach(last'.calls, last'.id_bundle)
            /\ \A id \in BundleIds(last'.id_bundle) :
                /\ PushedFor(last'.calls, id) = {Policy(CapabilityOf(id)')}
                /\ read_policies'[id] = Policy(CapabilityOf(id)')]_vars

\* C22 witness: initialize_read_policies returned for a bundle of a storage and a
\* compute collection anchored at different frontiers: two calls were made, one
\* per controller, each with the one policy of its collection.
C22_Witness ==
    /\ last.op = "initialize_read_policies"
    /\ last.result = "Ok"
    /\ BundleIds(last.id_bundle) = Ids
    /\ Cardinality(DOMAIN last.holds) = 2
    /\ Len(last.calls) = 2
    /\ \A n \in 1..2 : Len(last.calls[n].policies) = 1
    /\ \A id \in Ids : Pushes(last.calls, id, Policy(CapabilityOf(id))) /\ read_policies[id].valid_from # {}

-----------------------------------------------------------------------------
(* The set_read_policy calls of acquire_read_holds.                        *)

-----------------------------------------------------------------------------
(* acquire_read_holds of a collection that does not exist.                 *)

\* The controllers know the collection: the storage controller has it, or the
\* compute controller has its instance and the collection on it.
Known(id) == id \in DOMAIN collections /\ (id \in StorageIds \/ InstanceOf(id) \in instances)

\* The coordinator's capabilities, the policies the controllers have, the holds
\* handed out and queued, and the timeline's holds.
Coordinator == <<storage_read_capabilities, compute_read_capabilities, read_policies, live_read_holds, dropped_read_holds, timeline_read_holds, applied>>

\* C24: acquire_read_holds of a bundle with an id whose collection the
\* controllers do not know aborts (the outcome is neither Ok nor Err), and the
\* step that aborts creates and adjusts no capability, pushes no policy and hands
\* out no hold, for any id; an acquire of known collections does not abort.
C24_AcquireMissingAborts ==
    [][(last'.op = "acquire_read_holds" /\ ~aborted) =>
            IF \E id \in BundleIds(last'.id_bundle) : ~Known(id)
            THEN last'.result = "panic" /\ aborted' /\ last'.calls = << >> /\ Coordinator' = Coordinator
            ELSE last'.result \in {"Ok", "Err"} /\ ~aborted']_vars

\* C24 witness: a bundle of the storage collection, which exists and has a hold
\* counted from an earlier acquire, and a compute collection that was dropped:
\* the call aborted, and the storage capability has the one hold it had.
C24_Witness ==
    /\ last.op = "acquire_read_holds"
    /\ last.result = "panic"
    /\ aborted
    /\ BundleIds(last.id_bundle) = Ids
    /\ \E id \in Ids : Known(id) /\ HasCapability(id) /\ (\E t \in Times : CapabilityOf(id).holds[t] = 1) /\ id \in StorageIds
    /\ \E id \in Ids : ~Known(id)
    /\ Len(live_read_holds) = 1

-----------------------------------------------------------------------------
(* acquire_read_holds_auto_cleanup.                                        *)

\* The ReadHolds kept for a connection, oldest first.
TxnReadHoldsOf(txn, conn_id) == IF conn_id \in DOMAIN txn THEN txn[conn_id] ELSE << >>

\* No count of any capability went down, and no capability went away.
NothingReleased ==
    /\ dropped_read_holds' = dropped_read_holds
    /\ live_read_holds' = live_read_holds
    /\ \A id \in Ids : HasCapability(id) => HasCapability(id)' /\ \A t \in Times : CapabilityOf(id)'.holds[t] >= CapabilityOf(id).holds[t]

\* C25: acquire_read_holds_auto_cleanup that succeeded appended the acquired
\* ReadHolds, which covers the bundle, to the vector kept under the session's
\* connection id, after the ReadHolds that were there; the vectors of other
\* connections are as they were and nothing was released.  When it returned the
\* Err of a precise acquisition that came too late, no vector and no
\* coordinator state changed.
C25_AutoCleanupStores ==
    [][(last'.op = "acquire_read_holds_auto_cleanup" /\ ~aborted) =>
            /\ last'.result = "Ok" =>
                /\ TxnReadHoldsOf(txn_read_holds', last'.conn_id) = Append(TxnReadHoldsOf(txn_read_holds, last'.conn_id), last'.holds)
                /\ IdBundle(last'.holds) = last'.id_bundle
                /\ \A conn_id \in ConnIds \ {last'.conn_id} : TxnReadHoldsOf(txn_read_holds', conn_id) = TxnReadHoldsOf(txn_read_holds, conn_id)
                /\ NothingReleased
                /\ \A id \in BundleIds(last'.id_bundle) : CapabilityOf(id)'.holds = UpdateIter((IF HasCapability(id) THEN CapabilityOf(id).holds ELSE ZeroHolds), Effective(last'.time, id), 1)
            /\ last'.result = "Err" =>
                /\ last'.precise /\ last'.too_late # {}
                /\ txn_read_holds' = txn_read_holds
                /\ Coordinator' = Coordinator]_vars

\* C25 witness: the second acquire_read_holds_auto_cleanup of one connection
\* succeeded: its vector has the earlier ReadHolds first and the new one last,
\* and the capability counts both.
C25_Witness ==
    /\ last.op = "acquire_read_holds_auto_cleanup"
    /\ last.result = "Ok"
    /\ Len(TxnReadHoldsOf(txn_read_holds, last.conn_id)) = 2
    /\ TxnReadHoldsOf(txn_read_holds, last.conn_id)[2] = last.holds
    /\ TxnReadHoldsOf(txn_read_holds, last.conn_id)[1] # last.holds
    /\ \A id \in BundleIds(last.id_bundle) : \E t, u \in Times : t # u /\ CapabilityOf(id).holds[t] = 1 /\ CapabilityOf(id).holds[u] = 1

-----------------------------------------------------------------------------
(* release_read_holds of several holds on one id.                          *)

\* The policies handed over for id by the calls, in the order of the calls and
\* of their vectors.
RECURSIVE PoliciesFor(_, _)
PoliciesFor(calls, id) == IF calls = << >> THEN << >> ELSE SelectSeq(Head(calls).policies, LAMBDA change : change[1] = id) \o PoliciesFor(Tail(calls), id)

\* C26: release_read_holds only subtracts: for every id that has a capability,
\* the count at each time goes down by the number of released holds that name
\* the id at that time; when the holds name the id, a policy is handed over for
\* each of them, and the last one is policy() of the capability after all
\* decrements of the call, which is what the controller has installed.
C26_ReleaseSubtracts ==
    [][(last'.op = "release_read_holds") =>
            \A id \in Ids : HasCapability(id) =>
                /\ HasCapability(id)'
                /\ CapabilityOf(id)'.base_policy = CapabilityOf(id).base_policy
                /\ \A t \in Times : CapabilityOf(id)'.holds[t] = CapabilityOf(id).holds[t] - Naming(last'.read_holdses, id, t)
                /\ LET pushed == PoliciesFor(last'.calls, id)
                   IN  /\ Len(pushed) = Cardinality({n \in 1..Len(last'.read_holdses) : id \in BundleIds(IdBundle(last'.read_holdses[n]))})
                       /\ pushed # << >> => pushed[Len(pushed)][2] = Policy(CapabilityOf(id)') /\ read_policies'[id] = Policy(CapabilityOf(id)')]_vars

\* C26 witness: one release_read_holds call released two holds that name the same
\* compute collection at different times; each count went from 1 to 0, two
\* policies were handed over for the id, and they differ.
C26_Witness ==
    /\ last.op = "release_read_holds"
    /\ Len(last.read_holdses) = 2
    /\ \E id \in ComputeIds :
        /\ \A n \in 1..2 : id \in BundleIds(IdBundle(last.read_holdses[n]))
        /\ \E t, u \in Times : t # u /\ Naming(last.read_holdses, id, t) = 1 /\ Naming(last.read_holdses, id, u) = 1
        /\ HasCapability(id) /\ CapabilityOf(id).holds = ZeroHolds
        /\ Len(PoliciesFor(last.calls, id)) = 2
        /\ PoliciesFor(last.calls, id)[1] # PoliciesFor(last.calls, id)[2]
        /\ read_policies[id] = Policy(CapabilityOf(id))

-----------------------------------------------------------------------------
(* TimelineReadHolds::remove_storage_id, remove_compute_id.                *)

\* The ids of a bundle, each with the controller or instance it is under.
Placed(b) == {<<"storage", id>> : id \in b.storage_ids} \cup UNION {{<<i, id>> : id \in b.compute_ids[i]} : i \in DOMAIN b.compute_ids}

\* The value `after` is `before` with the placed id taken out of every entry:
\* every other id is at its times, an entry left without ids is gone, and so is
\* an instance key left without ids.
TakenOut(before, after, placed) ==
    /\ DOMAIN after = {f \in DOMAIN before : Placed(before[f]) \ {placed} # {}}
    /\ \A f \in DOMAIN after :
        /\ Placed(after[f]) = Placed(before[f]) \ {placed}
        /\ \A i \in DOMAIN after[f].compute_ids : after[f].compute_ids[i] # {}

\* C27: remove_storage_id(id) and remove_compute_id(instance, id) take the id out
\* of every time entry, delete the entries and the instance keys that are left
\* without ids, leave every other id at its times, and change nothing when no
\* entry names the id.
C27_RemoveId ==
    [][/\ last'.op = "remove_storage_id" =>
            /\ TakenOut(timeline_read_holds, timeline_read_holds', <<"storage", last'.id>>)
            /\ (\A f \in DOMAIN timeline_read_holds : last'.id \notin timeline_read_holds[f].storage_ids) => timeline_read_holds' = timeline_read_holds
       /\ last'.op = "remove_compute_id" =>
            /\ TakenOut(timeline_read_holds, timeline_read_holds', <<InstanceOf(last'.id), last'.id>>)
            /\ (\A f \in DOMAIN timeline_read_holds : last'.id \notin BundleComputeIds(timeline_read_holds[f])) => timeline_read_holds' = timeline_read_holds]_vars

\* C27 witness: remove_compute_id ran on a value that named the id in two
\* entries: one entry had only that id and is gone, the other keeps its storage
\* id and its other compute id under the instance key.
C27_Witness ==
    /\ last.op = "remove_compute_id"
    /\ Len(last.read_holdses) = 1
    /\ Cardinality(DOMAIN last.read_holdses[1]) = 2
    /\ \A f \in DOMAIN last.read_holdses[1] : last.id \in BundleComputeIds(last.read_holdses[1][f])
    /\ Cardinality(DOMAIN timeline_read_holds) = 1
    /\ \A f \in DOMAIN timeline_read_holds :
        /\ timeline_read_holds[f].storage_ids = StorageIds
        /\ BundleComputeIds(timeline_read_holds[f]) = EntryComputeIds \ {last.id}

-----------------------------------------------------------------------------
(* drop_storage_read_policy, drop_compute_read_policy.                     *)

\* The capabilities of the ids other than id.
OtherCapabilities(id) == [x \in {y \in Ids \ {id} : HasCapability(y)} |-> CapabilityOf(x)]

\* What a drop of a read policy leaves alone.
BesideCapabilities == <<read_policies, timeline_read_holds, live_read_holds, dropped_read_holds, txn_read_holds, collections, instances>>

\* C28: drop_storage_read_policy(id) and drop_compute_read_policy(id) leave the
\* id without a capability, whatever holds it counted, and return whether it had
\* one, so a drop that follows a drop of the same id returns false; the
\* capabilities of the other ids, the timeline's holds, the holds handed out and
\* the policies the controllers have are as before, and no call is made.
C28_DropReadPolicy ==
    [][last'.op \in {"drop_storage_read_policy", "drop_compute_read_policy"} =>
            /\ (last'.op = "drop_storage_read_policy") = (last'.id \in StorageIds)
            /\ \E id \in {last'.id} :
                /\ ~HasCapability(id)'
                /\ last'.existed = HasCapability(id)
                /\ (last.op = last'.op /\ last.id = id) => ~last'.existed
                /\ OtherCapabilities(id)' = OtherCapabilities(id)
            /\ last'.calls = << >>
            /\ BesideCapabilities' = BesideCapabilities]_vars

\* C28 witness: a drop returned true for an id whose capability counted holds;
\* the id is still named by the timeline's holds and has its policy at the
\* controller, and the other id has its capability with its holds.
C28_Witness ==
    /\ last.op \in {"drop_storage_read_policy", "drop_compute_read_policy"}
    /\ last.existed
    /\ ~HasCapability(last.id)
    /\ last.id \in DOMAIN read_policies
    /\ read_policies[last.id].valid_from # {}
    /\ \E f \in DOMAIN timeline_read_holds : last.id \in BundleIds(timeline_read_holds[f])
    /\ \E id \in Ids \ {last.id} : HasCapability(id) /\ CapabilityOf(id).holds # ZeroHolds

-----------------------------------------------------------------------------
(* update_storage_base_read_policies, update_compute_base_read_policies.   *)

\* The controller or compute instance that takes the policies of id.
TargetOf(id) == IF id \in StorageIds THEN "storage" ELSE InstanceOf(id)

\* A policy lets the collection compact to no time beyond a time that is held,
\* whatever the write frontier is.
Respects(policy, holds) == \A upper \in Uppers, t \in Times : holds[t] > 0 => Le(PolicyFrontier(policy, upper), FromElem(t))

\* C29: update_storage_base_read_policies and update_compute_base_read_policies
\* set base_policy of the named capability and nothing else of it: its hold
\* counts and every other capability are as before; policy() of the updated
\* capability goes to the id's controller in one call, respects every hold the
\* capability counts, and is installed.  For an id without capability the call
\* aborts, and changes and pushes nothing.
C29_UpdateBasePolicy ==
    [][(last'.op \in {"update_storage_base_read_policies", "update_compute_base_read_policies"} /\ ~aborted) =>
            \E id \in {last'.id} :
                /\ (last'.op = "update_storage_base_read_policies") = (id \in StorageIds)
                /\ OtherCapabilities(id)' = OtherCapabilities(id)
                /\ IF HasCapability(id)
                   THEN /\ last'.result = "Ok" /\ ~aborted'
                        /\ HasCapability(id)'
                        /\ CapabilityOf(id)' = [CapabilityOf(id) EXCEPT !.base_policy = last'.policy]
                        /\ last'.calls = <<Call(TargetOf(id), <<(<<id, Policy(CapabilityOf(id)')>>)>>)>>
                        /\ read_policies' = Put(read_policies, id, Policy(CapabilityOf(id)'))
                        /\ Respects(read_policies'[id], CapabilityOf(id).holds)
                   ELSE /\ last'.result = "panic" /\ aborted'
                        /\ last'.calls = << >>
                        /\ Coordinator' = Coordinator]_vars

\* C29 witness: the base policy of a capability that counts a hold at time 0 was
\* changed from a fixed frontier to one that lags the write frontier: the counts
\* are as they were, and the pushed policy still stops at the hold however far
\* the writes are.
C29_Witness ==
    /\ last.op \in {"update_storage_base_read_policies", "update_compute_base_read_policies"}
    /\ last.result = "Ok"
    /\ last.policy = LagWritesBy(WindowLag)
    /\ Len(last.calls) = 1
    /\ HasCapability(last.id)
    /\ CapabilityOf(last.id).base_policy = last.policy
    /\ CapabilityOf(last.id).holds[0] > 0
    /\ read_policies[last.id] = Policy(CapabilityOf(last.id))
    /\ PolicyFrontier(read_policies[last.id], FromElem(MaxTime + WindowLag)) = FromElem(0)
    /\ BaseFrontier(last.policy, FromElem(MaxTime + WindowLag)) = FromElem(MaxTime)

-----------------------------------------------------------------------------
(* The ReadHolds value acquire_read_holds returns.                         *)

\* The entries of a ReadHolds value that name the id where the bundle has it:
\* under the storage ids, or under its instance.
EntriesOf(holds, id) == {f \in DOMAIN holds : <<TargetOf(id), id>> \in Placed(holds[f])}

\* C30: the ReadHolds value of an acquire_read_holds that succeeded, precise or
\* not, covers exactly the requested bundle: each requested id is in exactly one
\* entry, the one keyed by the join of the requested time and the collection's
\* lower frontier; no entry is empty or names another id or names an id
\* elsewhere than the bundle has it; and id_bundle() is the requested bundle.
C30_ReceiptCoversBundle ==
    [][(last'.op = "acquire_read_holds" /\ last'.result = "Ok") =>
            /\ \A id \in BundleIds(last'.id_bundle) : EntriesOf(last'.holds, id) = {Effective(last'.time, id)}
            /\ \A f \in DOMAIN last'.holds :
                /\ ~BundleIsEmpty(last'.holds[f])
                /\ Placed(last'.holds[f]) \subseteq Placed(last'.id_bundle)
            /\ DOMAIN last'.holds = {Effective(last'.time, id) : id \in BundleIds(last'.id_bundle)}
            /\ IdBundle(last'.holds) = last'.id_bundle
            /\ live_read_holds'[Len(live_read_holds')] = last'.holds]_vars

\* C30 witness: an acquire of both collections at time 0, one of them retained
\* from 1 only, returned a ReadHolds with two entries: the storage id under one
\* frontier, the compute id under the other, and id_bundle() is the bundle.
C30_Witness ==
    /\ last.op = "acquire_read_holds"
    /\ last.result = "Ok"
    /\ last.time = 0
    /\ BundleIds(last.id_bundle) = Ids
    /\ DOMAIN last.holds = {FromElem(0), FromElem(1)}
    /\ \A id \in Ids : Cardinality(EntriesOf(last.holds, id)) = 1
    /\ \A f \in DOMAIN last.holds : Cardinality(BundleIds(last.holds[f])) = 1
    /\ IdBundle(last.holds) = last.id_bundle

-----------------------------------------------------------------------------
(* TimelineReadHolds::extend_with_new.                                     *)

\* The bundle a TimelineReadHolds value has under a time: empty without entry.
BundleAt(holds, time) == IF time \in DOMAIN holds THEN holds[time] ELSE EmptyBundle

\* The ids of other that self has under the same time key.
Coinciding(self, other) == {id \in Ids : \E f \in (DOMAIN self) \cap (DOMAIN other) : <<TargetOf(id), id>> \in Placed(self[f]) \cap Placed(other[f])}

\* C31: extend_with_new(other) aborts when self has an id of other under the
\* same time key.  When self has no id of other under any time, it returns and
\* self then has, under every time, the union of its bundle and other's bundle
\* at that time: its entries at times other does not have are as before, and it
\* has no entry that neither had.
C31_ExtendWithNew ==
    [][last'.op = "extend_with_new" =>
            /\ Coinciding(timeline_read_holds, last'.holds) # {} => last'.result = "panic" /\ aborted'
            /\ HoldIds(timeline_read_holds) \cap HoldIds(last'.holds) = {} =>
                /\ last'.result = "Ok" /\ ~aborted'
                /\ DOMAIN timeline_read_holds' = (DOMAIN timeline_read_holds) \cup (DOMAIN last'.holds)
                /\ \A f \in Frontiers : Placed(BundleAt(timeline_read_holds', f)) = Placed(BundleAt(timeline_read_holds, f)) \cup Placed(BundleAt(last'.holds, f))
                /\ \A f \in (DOMAIN timeline_read_holds) \ (DOMAIN last'.holds) : timeline_read_holds'[f] = timeline_read_holds[f]]_vars

\* C31 witness: extend_with_new returned after it merged a bundle of other into
\* the entry self had under the same time and added an entry for a time self did
\* not have, while an entry of self at a third time stayed.
C31_Witness ==
    /\ last.op = "extend_with_new"
    /\ last.result = "Ok"
    /\ Len(last.read_holdses) = 1
    /\ HoldIds(last.read_holdses[1]) \cap HoldIds(last.holds) = {}
    /\ \E f \in (DOMAIN last.read_holdses[1]) \cap (DOMAIN last.holds) : Cardinality(BundleIds(timeline_read_holds[f])) = 2
    /\ (DOMAIN last.holds) \ (DOMAIN last.read_holdses[1]) # {}
    /\ (DOMAIN last.read_holdses[1]) \ (DOMAIN last.holds) # {}
    /\ Cardinality(DOMAIN timeline_read_holds) = 3

-----------------------------------------------------------------------------
(* initialize_read_policies of an id the timeline already holds.           *)

\* C32: initialize_read_policies of a bundle with a timeline-anchored id that the
\* timeline's read holds already name, under whatever time, aborts, and the step
\* leaves every capability as it was: no count is incremented a second time.
C32_ReinitializeAborts ==
    [][(last'.op = "initialize_read_policies" /\ ~aborted /\ HoldIds(last'.holds) \cap HoldIds(timeline_read_holds) # {}) =>
            /\ last'.result = "panic"
            /\ aborted'
            /\ storage_read_capabilities' = storage_read_capabilities
            /\ compute_read_capabilities' = compute_read_capabilities]_vars

-----------------------------------------------------------------------------
(* update_read_holds of an id that is gone.                                *)

\* The ids named by the entries whose time update_read_holds changes.
MovedIds(old, new_time) == UNION {BundleIds(old[f]) : f \in Moved(old, new_time)}

\* C33: update_read_holds aborts when an entry whose time changes names an id
\* that has no capability or whose collection the controller does not know: the
\* id is never passed over, and no holds are returned.
C33_UpdateAbortsOnGone ==
    [][(last'.op = "update_read_holds" /\ ~aborted /\ \E id \in MovedIds(timeline_read_holds, FromElem(last'.time)) : ~HasCapability(id) \/ ~Known(id)) =>
            /\ last'.result = "panic"
            /\ last'.panic # ""
            /\ aborted'
            /\ last'.holds = EmptyMap
            /\ last'.calls = << >>]_vars

\* C33 witness: update_read_holds aborted on an entry that names an id whose
\* capability was dropped while its collection exists and is not ahead of the
\* new time; the other id of the timeline still has its capability.
C33_Witness ==
    /\ last.op = "update_read_holds"
    /\ last.result = "panic"
    /\ last.panic = "id does not exist"
    /\ aborted
    /\ \E id \in MovedIds(timeline_read_holds, FromElem(last.time)) :
        /\ ~HasCapability(id)
        /\ Known(id)
        /\ Le(collections[id], FromElem(last.time))
    /\ \A id \in MovedIds(timeline_read_holds, FromElem(last.time)) : Known(id)
    /\ \E id \in HoldIds(timeline_read_holds) : HasCapability(id)

-----------------------------------------------------------------------------
(* One release per acquired hold.                                          *)

\* How many of the holds of a sequence are the value h.
Copies(read_holdses, h) == Cardinality({n \in 1..Len(read_holdses) : read_holdses[n] = h})

\* The holds acquired and not yet processed by release_read_holds that name id
\* at time t: those the callers own and those in the drop channel.
Unreleased(id, t) == Naming(live_read_holds, id, t) + Naming(dropped_read_holds, id, t)

\* C34: a ReadHolds value is handed over exactly once.  Its destruction takes it
\* from its owner and puts its inner state on the drop channel once, releasing
\* nothing; release_read_holds processes what it takes from the head of the
\* channel and no hold a caller still owns.  So every acquired hold is in
\* exactly one place until it is released, and a capability counts at every time
\* exactly the holds not yet released that name the id there: no hold is
\* subtracted twice.
C34_ExactlyOnceHandoff ==
    /\ [](~aborted => \A id \in Ids : HasCapability(id) => \A t \in Times : CapabilityOf(id).holds[t] = Unreleased(id, t))
    /\ [][last'.op = "drop" =>
            /\ Len(live_read_holds') = Len(live_read_holds) - 1
            /\ dropped_read_holds' = Append(dropped_read_holds, last'.holds)
            /\ \A n \in 1..Len(live_read_holds) : Copies(live_read_holds', live_read_holds[n]) = Copies(live_read_holds, live_read_holds[n]) - (IF live_read_holds[n] = last'.holds THEN 1 ELSE 0)
            /\ UNCHANGED <<storage_read_capabilities, compute_read_capabilities, read_policies>>]_vars
    /\ [][last'.op = "release_read_holds" =>
            /\ live_read_holds' = live_read_holds
            /\ dropped_read_holds = last'.read_holdses \o dropped_read_holds'
            /\ last'.read_holdses # << >>]_vars

\* C34 witness: of two equal holds on a collection one was destroyed and
\* released, the other is still owned by its caller: the count is 1.
C34_Witness ==
    /\ last.op = "release_read_holds"
    /\ ~aborted
    /\ Len(live_read_holds) = 1
    /\ dropped_read_holds = << >>
    /\ last.read_holdses = <<live_read_holds[1]>>
    /\ \E id \in Ids, t \in Times :
        /\ Naming(live_read_holds, id, t) = 1
        /\ HasCapability(id)
        /\ CapabilityOf(id).holds[t] = 1

-----------------------------------------------------------------------------
(* What the controllers are sent.                                          *)

\* The operations of the coordinator that change a capability and push policies.
PushingOps == {"initialize_read_policies", "acquire_read_holds", "update_read_holds", "release_read_holds", "update_storage_base_read_policies", "update_compute_base_read_policies"}

\* C35: when an operation that changes capabilities has completed, every id
\* whose capability it created or changed and whose collection (and instance)
\* the controllers know was sent a policy by it, and the controller has the
\* capability's current policy(); and for every id the operation sent anything
\* for, the last policy sent is policy() of the id's capability.
C35_ControllerHasPolicy ==
    [][(last'.op \in PushingOps /\ last'.result = "Ok" /\ ~aborted /\ ~aborted') =>
            \A id \in Ids :
                /\ (HasCapability(id)' /\ Known(id) /\ (HasCapability(id) => CapabilityOf(id)' # CapabilityOf(id))) =>
                    /\ Names(last'.calls, id)
                    /\ id \in DOMAIN read_policies'
                    /\ read_policies'[id] = Policy(CapabilityOf(id)')
                /\ Names(last'.calls, id) =>
                    /\ HasCapability(id)'
                    /\ \E pushed \in {PoliciesFor(last'.calls, id)} : pushed[Len(pushed)][2] = Policy(CapabilityOf(id)')]_vars

\* C35 witness: the base policy of a collection whose capability counts a hold
\* at time 1 was changed while the collection exists: the controller has the
\* policy with the new base, valid from 1.
C35_Witness ==
    /\ last.op \in {"update_storage_base_read_policies", "update_compute_base_read_policies"}
    /\ last.result = "Ok"
    /\ ~aborted
    /\ Known(last.id)
    /\ HasCapability(last.id)
    /\ CapabilityOf(last.id).holds[1] = 1
    /\ CapabilityOf(last.id).base_policy = LagWritesBy(WindowLag)
    /\ read_policies[last.id] = [valid_from |-> FromElem(1), base |-> LagWritesBy(WindowLag)]
    /\ Len(live_read_holds) + Len(dropped_read_holds) = 1

-----------------------------------------------------------------------------
(* Counts and outstanding holds across dropped capabilities.               *)

\* The holds that name id at time t and were not processed by
\* release_read_holds: the timeline's, the callers' and those on the channel.
Outstanding(id, t) == Naming(<<timeline_read_holds>>, id, t) + Unreleased(id, t)

\* C36: in every state, every capability counts at every time exactly the
\* outstanding holds that name its id there, also after the capability was
\* dropped and made again by a later acquire.
C36_CountIsOutstanding ==
    ~aborted => \A id \in Ids : HasCapability(id) => \A t \in Times : CapabilityOf(id).holds[t] = Outstanding(id, t)

\* C37: no capability ever counts a negative number of holds at any time, also
\* when the capability was dropped and made again by a later acquire while a
\* hold acquired before the drop waits on the drop channel; every hold is
\* released at most once.
C37_CountsNeverNegative ==
    ~aborted => \A id \in Ids : HasCapability(id) => \A t \in Times : CapabilityOf(id).holds[t] >= 0

-----------------------------------------------------------------------------
(* The assertion of update_read_holds.                                     *)

\* C38: while the controllers advance lower frontiers only within the policy
\* last pushed and nothing is dropped, the timeline's holds, made by
\* initialize_read_policies and moved by update_read_holds, are never behind a
\* lower frontier: the lower frontier of every collection with a capability is
\* less-or-equal to every outstanding hold on it, and no update_read_holds step
\* fails the assertion, whatever acquires, releases, base-policy updates and
\* compaction steps come between.
C38_UpdateAssertionHolds ==
    /\ [](\A f \in DOMAIN timeline_read_holds : \A id \in BundleIds(timeline_read_holds[f]) : CollectionExists(id) => Le(collections[id], f))
    /\ [][last'.op = "update_read_holds" =>
            /\ Late(timeline_read_holds, FromElem(last'.time)) = {}
            /\ last'.panic # "read frontier not less-equal new time"
            /\ last'.result = "Ok"
            /\ ~aborted']_vars

\* C38 witness: update_read_holds checked the assertion and moved the timeline's
\* hold on a collection from time 0 to time 1, after the collection's base
\* policy was changed and while a caller holds the collection at time 0: the
\* lower frontier is still at 0.
C38_Witness ==
    /\ last.op = "update_read_holds"
    /\ last.result = "Ok"
    /\ last.time = 1
    /\ ~aborted
    /\ \E id \in Ids :
        /\ FromElem(0) \in DOMAIN last.read_holdses[1]
        /\ id \in BundleIds(last.read_holdses[1][FromElem(0)])
        /\ FromElem(0) \notin DOMAIN timeline_read_holds
        /\ id \in BundleIds(timeline_read_holds[FromElem(1)])
        /\ HasCapability(id)
        /\ CapabilityOf(id).base_policy = LagWritesBy(WindowLag)
        /\ CapabilityOf(id).holds[1] = 1
        /\ Unreleased(id, 0) = 1
        /\ collections[id] = FromElem(0)

-----------------------------------------------------------------------------
(* What update_read_holds conserves.                                       *)

RECURSIVE SumTo(_, _)
\* The sum of the counts at the times up to t.
SumTo(holds, t) == IF t = 0 THEN holds[0] ELSE holds[t] + SumTo(holds, t - 1)

\* The number of holds a capability counts, over all times.
TotalHolds(capability) == SumTo(capability.holds, MaxTime)

\* The old entries that end under the time g when the holds are moved to new_time.
EndingAt(old, new_time, g) == {f \in DOMAIN old : Join(f, new_time) = g}

\* C39: a completed update_read_holds leaves every id it moved with the same
\* total number of counted holds; the entries that end at the same time are one
\* entry whose bundle names exactly the ids of all of them; and an id that was
\* counted once per hold naming it is, at the new time as at every other, still
\* counted once per hold recorded there.
C39_UpdateConservesHolds ==
    [][(last'.op = "update_read_holds" /\ last'.result = "Ok") =>
            /\ \A id \in MovedIds(timeline_read_holds, FromElem(last'.time)) :
                TotalHolds(CapabilityOf(id)') = TotalHolds(CapabilityOf(id))
            /\ DOMAIN timeline_read_holds' = {Join(f, FromElem(last'.time)) : f \in DOMAIN timeline_read_holds}
            /\ \A g \in DOMAIN timeline_read_holds' :
                BundleIds(timeline_read_holds'[g]) = UNION {BundleIds(timeline_read_holds[f]) : f \in EndingAt(timeline_read_holds, FromElem(last'.time), g)}
            /\ \A id \in MovedIds(timeline_read_holds, FromElem(last'.time)) :
                (\A t \in Times : CapabilityOf(id).holds[t] = Outstanding(id, t)) =>
                    \A t \in Times : CapabilityOf(id)'.holds[t] = Naming(<<timeline_read_holds'>>, id, t) + Unreleased(id, t)]_vars

-----------------------------------------------------------------------------
(* release_read_holds and a compute instance that is gone.                 *)

\* Some released hold names the id.
NamedByReleased(read_holdses, id) == \E n \in 1..Len(read_holdses) : id \in HoldIds(read_holdses[n])

\* C40: release_read_holds returns normally whatever instances exist; it makes
\* no call to an instance that does not exist, so an id of such an instance is
\* named in no call and keeps its controller policy; yet every id the released
\* holds name whose capability exists is decremented once per hold and time,
\* also on the instance that is gone; and the ids on storage and on existing
\* instances get their new policy() pushed.
C40_ReleaseWithMissingInstance ==
    [][last'.op = "release_read_holds" =>
        /\ last'.result = "Ok"
        /\ ~aborted'
        /\ \A n \in 1..Len(last'.calls) : last'.calls[n].target = "storage" \/ last'.calls[n].target \in instances
        /\ \A id \in Ids : (HasCapability(id) /\ NamedByReleased(last'.read_holdses, id)) =>
            /\ HasCapability(id)'
            /\ \A t \in Times : CapabilityOf(id)'.holds[t] = CapabilityOf(id).holds[t] - Naming(last'.read_holdses, id, t)
            /\ IF id \in ComputeIds /\ InstanceOf(id) \notin instances
               THEN /\ ~Names(last'.calls, id)
                    /\ (id \in DOMAIN read_policies') = (id \in DOMAIN read_policies)
                    /\ id \in DOMAIN read_policies => read_policies'[id] = read_policies[id]
               ELSE /\ Pushes(last'.calls, id, Policy(CapabilityOf(id)'))
                    /\ CollectionExists(id) => read_policies'[id] = Policy(CapabilityOf(id)')]_vars

\* C40 witness: a hold on both collections at time 0 was released after the
\* compute instance had gone: both counts are back at zero, the storage
\* collection's policy was pushed and set, and no call names the compute
\* collection.
C40_Witness ==
    /\ last.op = "release_read_holds"
    /\ last.result = "Ok"
    /\ ~aborted
    /\ "i1" \notin instances
    /\ \E n \in 1..Len(last.read_holdses) : HoldTimes(last.read_holdses[n], "s1") = {FromElem(0)} /\ HoldTimes(last.read_holdses[n], "c1") = {FromElem(0)}
    /\ HasCapability("c1")
    /\ HasCapability("s1")
    /\ \A t \in Times : CapabilityOf("c1").holds[t] = 0 /\ CapabilityOf("s1").holds[t] = 0
    /\ ~Names(last.calls, "c1")
    /\ Pushes(last.calls, "s1", Policy(CapabilityOf("s1")))
    /\ CollectionExists("s1")
    /\ read_policies["s1"] = Policy(CapabilityOf("s1"))

====
